---- MODULE Spec2Model ----
(***************************************************************************)
(* A model of app/src/crypto.c of ledger-namada: the transaction signing   *)
(* assembly (crypto_sign and its helpers) and the MASP commitment          *)
(* verification and spend signing (crypto_sign_masp and its helpers).      *)
(*                                                                         *)
(* Bytes are symbolic: a byte is a pair <<kind, n>>; <<"lit", n>> is the   *)
(* literal byte n, every other kind names byte n of a value produced by    *)
(* the crypto engine (a public key, a signature) or left by the caller.    *)
(* SHA-256 is modelled as an injective function of the bytes fed to it: a  *)
(* digest is the tagged tuple of its inputs, in feeding order.             *)
(***************************************************************************)
EXTENDS Integers, Sequences, FiniteSets, TLC

VARIABLES
    op,          \* the entry point that ran last ("init" before any call)
    args,        \* the arguments it was called with
    res,         \* what it returned and what it left in memory
    spendlist,   \* randomness store: spend items, in generation order
    outputlist,  \* randomness store: output items
    convertlist, \* randomness store: convert items
    sigstore,    \* spend-signature store: signatures appended so far
    sigread      \* spend-signature store: number of signatures extracted

vars == <<op, args, res, spendlist, outputlist, convertlist, sigstore, sigread>>

storeVars == <<spendlist, outputlist, convertlist, sigstore, sigread>>

(***************************************************************************)
(* Bounds of the model.                                                    *)
(***************************************************************************)
\* prior signature sections carried by a parsed transaction
MaxPrevSigs == 4
\* the largest output buffer tried is minimumBufferSize + OutSlack
OutSlack == 10
\* items the spend, output and convert randomness lists may hold
MaxSpends == 2
MaxOutputs == 2
MaxConverts == 3
\* signatures the spend-signature store may hold
MaxSigs == 2

(***************************************************************************)
(* Program constants.                                                      *)
(***************************************************************************)
PK_LEN_25519 == 32
PK_LEN_25519_PLUS_TAG == 33
SALT_LEN == 32
SIG_LEN_25519_PLUS_TAG == 65
ED25519_SIGNATURE_SIZE == 64
HASH_LEN == 32
MAX_SIGNATURE_HASHES == 10
key_ed25519 == 0
key_secp256k1 == 1
KEY_LENGTH == 32
RANDOM_LEN == 32
SIGNATURE_SIZE == 64

(***************************************************************************)
(* Bytes and buffers.  A buffer of length n is a sequence of n bytes; the  *)
(* byte at C offset o is element o + 1.                                    *)
(***************************************************************************)
Lit(n) == <<"lit", n>>

Z == Lit(0)

Zeros(n) == [i \in 1..n |-> Z]

\* MEMZERO(buf, len) on a whole buffer
MEMZERO(buf) == Zeros(Len(buf))

AllZero(buf) == \A i \in 1..Len(buf) : buf[i] = Z

\* the n bytes of the value named kind
ValueBytes(kind, n) == [i \in 1..n |-> <<kind, i - 1>>]

\* MEMCPY(buf + off, bytes, Len(bytes)) as far as it lies inside buf
WriteAt(buf, off, bytes) ==
    LET n == Len(buf)
        m == IF off + Len(bytes) <= n THEN Len(bytes) ELSE n - off
    IN  IF off >= n THEN buf
        ELSE SubSeq(buf, 1, off) \o SubSeq(bytes, 1, m) \o SubSeq(buf, off + m + 1, n)

\* the offsets such a copy touches beyond the end of a buffer of length len
Beyond(len, off, n) == {o \in off..(off + n - 1) : o >= len}

(***************************************************************************)
(* Ed25519 helpers.  A secret scratch buffer is described by what it       *)
(* holds: "zero", "secret" (key material, possibly partial) or "uninit"    *)
(* (an uninitialised local).  fail names the crypto-engine call that       *)
(* fails, "none" when every call succeeds.                                 *)
(***************************************************************************)
ExtractFailPoints == {"none", "derive", "init_private_key", "init_public_key", "generate_pair"}

SignFailPoints == {"none", "derive", "init_private_key", "eddsa_sign"}

\* crypto_extractPublicKey_ed25519 from its first statement to the label
ExtractPublicKey_body(pubKey, fail) ==
    LET derived == fail # "derive"
        keyed == derived /\ fail # "init_private_key"
        paired == keyed /\ fail \notin {"init_public_key", "generate_pair"}
    IN  [error |-> IF paired THEN "zxerr_ok" ELSE "zxerr_unknown",
         reached |-> TRUE,
         privateKeyData |-> "secret",
         cx_privateKey |-> IF derived THEN "secret" ELSE "uninit",
         pubKey |-> IF paired
                      THEN WriteAt(pubKey, 0, ValueBytes("pk", PK_LEN_25519))
                      ELSE pubKey]

\* a cleanup that forgets the key bytes and the output when the call failed
ExtractPublicKey_cleanup_keepOnError(f) ==
    IF f.error = "zxerr_ok"
      THEN [f EXCEPT !.cx_privateKey = "zero", !.privateKeyData = "zero"]
      ELSE f

\* crypto_extractPublicKey_ed25519 from the label catch_cx_error to its return
ExtractPublicKey_cleanup(f) ==
    [f EXCEPT !.cx_privateKey = "zero",
              !.privateKeyData = "zero",
              !.pubKey = IF f.error # "zxerr_ok" THEN MEMZERO(f.pubKey) ELSE f.pubKey]

\* crypto_extractPublicKey_ed25519(pubKey, pubKeyLen), pubKeyLen = Len(pubKey)
crypto_extractPublicKey_ed25519(pubKey, fail) ==
    IF Len(pubKey) < PK_LEN_25519
      THEN [error |-> "zxerr_invalid_crypto_settings", reached |-> FALSE,
            privateKeyData |-> "zero", cx_privateKey |-> "uninit", pubKey |-> pubKey]
      ELSE ExtractPublicKey_cleanup(ExtractPublicKey_body(pubKey, fail))

\* crypto_sign_ed25519 from its first statement to the label; sigName names
\* the signature value the engine produces over message
SignEd25519_body(output, sigName, fail) ==
    LET derived == fail # "derive"
        keyed == derived /\ fail # "init_private_key"
        signed == keyed /\ fail # "eddsa_sign"
    IN  [error |-> IF signed THEN "zxerr_ok" ELSE "zxerr_unknown",
         reached |-> TRUE,
         privateKeyData |-> "secret",
         cx_privateKey |-> IF derived THEN "secret" ELSE "uninit",
         output |-> IF signed
                      THEN WriteAt(output, 0, ValueBytes(sigName, ED25519_SIGNATURE_SIZE))
                      ELSE output]

\* crypto_sign_ed25519 from the label catch_cx_error to its return
SignEd25519_cleanup(f) ==
    [f EXCEPT !.cx_privateKey = "zero",
              !.privateKeyData = "zero",
              !.output = IF f.error # "zxerr_ok" THEN MEMZERO(f.output) ELSE f.output]

\* crypto_sign_ed25519(output, outputLen, message, messageLen)
crypto_sign_ed25519(output, messageLen, sigName, fail) ==
    IF Len(output) < ED25519_SIGNATURE_SIZE \/ messageLen = 0
      THEN [error |-> "zxerr_unknown", reached |-> FALSE,
            privateKeyData |-> "zero", cx_privateKey |-> "uninit", output |-> output]
      ELSE SignEd25519_cleanup(SignEd25519_body(output, sigName, fail))

(***************************************************************************)
(* Hashes.  Every digest is a tuple whose first element names its shape.   *)
(***************************************************************************)
DISCRIMINANT_HEADER == 6

\* the content of a zero-initialised HASH_LEN slot
ZeroHash == <<"zero">>

\* the digest an external section hasher returns for the named section
SectionHash(name) == <<"sec", name>>

\* crypto_hashFeeHeader: SHA-256(discriminant || header->extBytes)
crypto_hashFeeHeader == <<"hdr", DISCRIMINANT_HEADER, "extBytes", <<>> >>

\* crypto_hashRawHeader: SHA-256(discriminant || header->bytes || 0x00)
crypto_hashRawHeader == <<"hdr", DISCRIMINANT_HEADER, "bytes", <<0>> >>

ValidKeyTag(tag) == tag = key_ed25519 \/ tag = key_secp256k1

\* the position (from 1) of the first of the first n entries whose tag is
\* neither ed25519 nor secp256k1, 0 when there is none
FirstBadTag(entries, n) ==
    IF \E i \in 1..n : ~ValidKeyTag(entries[i].tag)
      THEN CHOOSE i \in 1..n :
             /\ ~ValidKeyTag(entries[i].tag)
             /\ \A j \in 1..(i - 1) : ValidKeyTag(entries[j].tag)
      ELSE 0

\* a section hasher that feeds the signatures without looking at their tags
crypto_hashSigSection_noSigScan(sec, prefix, fail) ==
    IF fail = "sha256" THEN [error |-> "zxerr_unknown", digest |-> ZeroHash]
    ELSE IF sec.signerDiscriminant \notin {"PubKeys", "Address"}
      THEN [error |-> "zxerr_invalid_crypto_settings", digest |-> ZeroHash]
    ELSE IF sec.signerDiscriminant = "PubKeys"
              /\ FirstBadTag(sec.pubKeys, sec.pubKeysLen) # 0
      THEN [error |-> "zxerr_unknown", digest |-> ZeroHash]
    ELSE [error |-> "zxerr_ok",
          digest |-> <<"sigsec", prefix, sec.hashesLen, sec.hashes,
                       sec.signerDiscriminant, sec.pubKeysLen, sec.signaturesLen,
                       sec.indexedSignatures>>]

(***************************************************************************)
(* crypto_hashSigSection(signature_section, prefix, prefixLen, ...).       *)
(* sec.hashes is the hash list the section points to (the first            *)
(* sec.hashesLen entries are fed), sec.pubKeys and sec.indexedSignatures   *)
(* are the tagged entries the two byte streams hold.  prefix is <<>> for   *)
(* NULL.  fail = "sha256" makes the hash engine fail.  The salt is never   *)
(* fed to the hash.                                                        *)
(***************************************************************************)
crypto_hashSigSection(sec, prefix, fail) ==
    LET badKey == FirstBadTag(sec.pubKeys, sec.pubKeysLen)
        badSig == FirstBadTag(sec.indexedSignatures, sec.signaturesLen)
        signer ==
            IF sec.signerDiscriminant = "PubKeys"
              THEN <<"pubkeys", sec.pubKeysLen,
                     [i \in 1..sec.pubKeysLen |->
                        <<sec.pubKeys[i].tag, sec.pubKeys[i].key>>]>>
              ELSE <<"address", sec.addressBytes>>
        fed == <<"sigsec", prefix, sec.hashesLen,
                 [i \in 1..sec.hashesLen |-> sec.hashes[i]],
                 sec.signerDiscriminant, signer, sec.signaturesLen,
                 [i \in 1..sec.signaturesLen |->
                    <<sec.indexedSignatures[i].idx, sec.indexedSignatures[i].tag,
                      sec.indexedSignatures[i].sig>>]>>
    IN  IF fail = "sha256"
          THEN [error |-> "zxerr_unknown", digest |-> ZeroHash]
        ELSE IF sec.signerDiscriminant \notin {"PubKeys", "Address"}
          THEN [error |-> "zxerr_invalid_crypto_settings", digest |-> ZeroHash]
        ELSE IF sec.signerDiscriminant = "PubKeys" /\ badKey # 0
          THEN [error |-> "zxerr_unknown", digest |-> ZeroHash]
        ELSE IF badSig # 0
          THEN [error |-> "zxerr_unknown", digest |-> ZeroHash]
        ELSE [error |-> "zxerr_ok", digest |-> fed]

(***************************************************************************)
(* The hash accumulator of crypto_sign: hashes_buffer and indices_buffer,  *)
(* MAX_SIGNATURE_HASHES slots each, and section_hashes.hashesLen.  The     *)
(* code never compares hashesLen with the capacity, so the model keeps the *)
(* memory that follows the two arrays as slots MAX_SIGNATURE_HASHES and    *)
(* up; overflow records that such a slot was written.                      *)
(***************************************************************************)
Slots == MAX_SIGNATURE_HASHES + MaxPrevSigs

EmptyAcc ==
    [hashes |-> [k \in 0..(Slots - 1) |-> ZeroHash],
     indices |-> [k \in 0..(Slots - 1) |-> 0],
     hashesLen |-> 0,
     overflow |-> FALSE]

\* an index is stored in a uint8_t
U8(n) == n % 256

\* the append every site of the code performs: write the hash and its origin
\* index at slot hashesLen, then hashesLen++
AccAppend(acc, hash, index) ==
    [acc EXCEPT !.hashes[acc.hashesLen] = hash,
                !.indices[acc.hashesLen] = U8(index),
                !.hashesLen = @ + 1,
                !.overflow = @ \/ acc.hashesLen >= MAX_SIGNATURE_HASHES]

\* the first n hashes of the accumulator, as a list
HashList(acc, n) == [i \in 1..n |-> acc.hashes[i - 1]]

\* the first n origin indices of the accumulator, as a list
IndexList(acc, n) == [i \in 1..n |-> acc.indices[i - 1]]

\* extras that bring the proposal code whatever the proposal type is
crypto_addTxnHashes_alwaysCode(tx, acc) ==
    IF tx.typeTx \in {"InitAccount", "UpdateVP"}
      THEN AccAppend(acc, tx.vp_type_sechash, tx.vp_type_secidx)
    ELSE IF tx.typeTx = "InitProposal"
      THEN AccAppend(AccAppend(acc, tx.content_sechash, tx.content_secidx),
                     tx.proposal_code_sechash, tx.proposal_code_secidx)
    ELSE acc

\* crypto_addTxnHashes(txObj, hashes)
crypto_addTxnHashes(tx, acc) ==
    IF tx.typeTx \in {"InitAccount", "UpdateVP"}
      THEN AccAppend(acc, tx.vp_type_sechash, tx.vp_type_secidx)
    ELSE IF tx.typeTx = "InitProposal"
      THEN LET a == AccAppend(acc, tx.content_sechash, tx.content_secidx)
           IN  IF tx.proposal_type = "DefaultWithWasm"
                 THEN AccAppend(a, tx.proposal_code_sechash, tx.proposal_code_secidx)
                 ELSE a
    ELSE acc

(***************************************************************************)
(* Parsed transactions, as far as crypto_sign reads them.  A prior         *)
(* signature section is one of a few kinds, named by the hashes it lists:  *)
(*   "header"          the raw header hash (held by the accumulator)       *)
(*   "code"            the code section hash (held by the accumulator)     *)
(*   "header_unknown"  the raw header hash, then a hash of no section      *)
(*   "unknown"         a hash of no section of this transaction            *)
(*   "badtag"          the raw header hash; its public key carries a tag   *)
(*                     that is neither ed25519 nor secp256k1               *)
(*   "badsig"          the raw header hash; its signature carries such a   *)
(*                     tag                                                 *)
(*   "badsigner"       the raw header hash; its signer discriminant is     *)
(*                     neither PubKeys nor Address                         *)
(***************************************************************************)
PrevSigKinds == {"header", "code", "header_unknown", "unknown", "badtag"}

\* two more kinds of section that crypto_hashSigSection refuses
RefusedKinds == {"badsig", "badsigner"}

PrevSigHashes(kind) ==
    CASE kind = "header" -> <<crypto_hashRawHeader>>
      [] kind = "code" -> <<SectionHash("code")>>
      [] kind = "header_unknown" -> <<crypto_hashRawHeader, SectionHash("unknown")>>
      [] kind = "unknown" -> <<SectionHash("unknown")>>
      [] kind = "badtag" -> <<crypto_hashRawHeader>>
      [] kind \in RefusedKinds -> <<crypto_hashRawHeader>>

PrevSig(kind, idx) ==
    [kind |-> kind,
     idx |-> idx,
     salt |-> ValueBytes("foreign_salt", SALT_LEN),
     hashes |-> PrevSigHashes(kind),
     hashesLen |-> Len(PrevSigHashes(kind)),
     signerDiscriminant |-> IF kind = "badsigner" THEN "Other" ELSE "PubKeys",
     pubKeysLen |-> 1,
     pubKeys |-> <<[tag |-> IF kind = "badtag" THEN key_secp256k1 + 1 ELSE key_ed25519,
                    key |-> "foreign_pk"]>>,
     addressBytes |-> "none",
     signaturesLen |-> 1,
     indexedSignatures |->
        <<[idx |-> 0, tag |-> IF kind = "badsig" THEN key_secp256k1 + 1 ELSE key_ed25519,
           sig |-> "foreign_sig"]>>]

TxTypes ==
    {<<"Transfer", "Default">>, <<"InitAccount", "Default">>, <<"UpdateVP", "Default">>,
     <<"InitProposal", "Default">>, <<"InitProposal", "DefaultWithWasm">>}

\* the number of extra-data sections the transaction type brings
NumExtras(type) ==
    IF type[1] \in {"InitAccount", "UpdateVP"} THEN 1
    ELSE IF type[1] = "InitProposal" THEN (IF type[2] = "DefaultWithWasm" THEN 2 ELSE 1)
    ELSE 0

\* the transaction object the parser hands to crypto_sign: data is section 0,
\* code section 1, then the extra-data sections, the memo and the prior
\* signature sections
ParsedTx(type, memo, kinds) ==
    LET base == 2 + NumExtras(type) + (IF memo THEN 1 ELSE 0)
    IN  [typeTx |-> type[1],
         proposal_type |-> type[2],
         data |-> [idx |-> 0],
         code |-> [idx |-> 1],
         vp_type_sechash |-> SectionHash("vp_type"),
         vp_type_secidx |-> 2,
         content_sechash |-> SectionHash("content"),
         content_secidx |-> 2,
         proposal_code_sechash |-> SectionHash("proposal_code"),
         proposal_code_secidx |-> 3,
         memoSection |-> memo,
         memo |-> [idx |-> 2 + NumExtras(type)],
         signatures |-> [i \in 1..Len(kinds) |-> PrevSig(kinds[i], base + i - 1)],
         signaturesLen |-> Len(kinds),
         sectionLen |-> base + Len(kinds)]

\* the sequences over S of length at most n
RECURSIVE SeqsUpTo(_, _)
SeqsUpTo(S, n) ==
    IF n = 0 THEN {<<>>}
    ELSE LET shorter == SeqsUpTo(S, n - 1)
         IN  shorter \cup {Append(q, x) : q \in {r \in shorter : Len(r) = n - 1}, x \in S}

(***************************************************************************)
(* crypto_sign(txObj, output, outputLen).                                  *)
(*                                                                         *)
(* fail = <<site, inner>> names the one external call that fails and how   *)
(* (<<"none", "none">>: none fails).  The function is a chain of steps     *)
(* over a record s of its locals; s.err is "running" until a CHECK_ZXERR   *)
(* returns.  s.oob collects the offsets written at or beyond outputLen.    *)
(***************************************************************************)
minimumBufferSize ==
    PK_LEN_25519_PLUS_TAG + 2 * SALT_LEN + 2 * SIG_LEN_25519_PLUS_TAG + 2 + 10

FailAt(fail, site) == IF fail[1] = site THEN fail[2] ELSE "none"

\* the value of a literal byte; -1 for a byte the model knows only by name
ByteVal(b) == IF b[1] = "lit" THEN b[2] ELSE 0 - 1

\* the name of the value a run of bytes holds
NameOf(bytes) ==
    IF AllZero(bytes) THEN "zero"
    ELSE IF bytes = ValueBytes(bytes[1][1], Len(bytes)) THEN bytes[1][1]
    ELSE "mixed"

\* output[off .. off + n - 1]
Slice(buf, off, n) == SubSeq(buf, off + 1, off + n)

\* offsets of the blocks of the response
SaltOffset == PK_LEN_25519_PLUS_TAG

RawOffset == SaltOffset + SALT_LEN

\* a wrapper block that starts right behind the raw signature block
WrapperOffset_noGap == RawOffset + SIG_LEN_25519_PLUS_TAG

\* uint8_t *wrapper = raw + SALT_LEN + SIG_LEN_25519_PLUS_TAG
WrapperOffset == RawOffset + SALT_LEN + SIG_LEN_25519_PLUS_TAG

IndicesOffset == WrapperOffset + SIG_LEN_25519_PLUS_TAG

\* signature_section as crypto_hashSigSection sees it: its hash list aliases
\* hashes_buffer, its keys alias output, its signatures alias raw - 1
SignatureSection(s) ==
    [salt |-> Slice(s.out, SaltOffset, SALT_LEN),
     hashes |-> HashList(s.acc, s.sigHashesLen),
     hashesLen |-> s.sigHashesLen,
     signerDiscriminant |-> "PubKeys",
     pubKeysLen |-> s.pubKeysLen,
     pubKeys |-> <<[tag |-> ByteVal(s.out[1]),
                    key |-> NameOf(Slice(s.out, 1, PK_LEN_25519))]>>,
     addressBytes |-> "none",
     signaturesLen |-> s.signaturesLen,
     indexedSignatures |->
        IF s.signaturesLen = 0 THEN <<>>
        ELSE <<[idx |-> ByteVal(s.out[RawOffset]),
                tag |-> ByteVal(s.out[RawOffset + 1]),
                sig |-> NameOf(Slice(s.out, RawOffset + 1, ED25519_SIGNATURE_SIZE))]>>]

\* CHECK_ZXERR: a step runs only when no earlier call of crypto_sign failed
Running(s) == s.err = "running"

Fails(s, e) == [s EXCEPT !.err = e]

\* lines 629-631: MEMZERO(output), the public key at output + 1
SignStep_pubkey(output, fail) ==
    LET zeroed == MEMZERO(output)
        pk == crypto_extractPublicKey_ed25519(Slice(zeroed, 1, PK_LEN_25519),
                                              FailAt(fail, "extractPublicKey"))
    IN  [err |-> IF pk.error = "zxerr_ok" THEN "running" ELSE pk.error,
         out |-> WriteAt(zeroed, 1, pk.pubKey),
         oob |-> {},
         acc |-> EmptyAcc,
         sigHashesLen |-> 0,
         pubKeysLen |-> 0,
         signaturesLen |-> 0,
         raw_indices_len |-> 0,
         raw_indices_buffer |-> <<>>,
         rawMsg |-> ZeroHash,
         wrapperMsg |-> ZeroHash,
         loopHashes |-> <<>>,
         tested |-> <<>>,
         entered |-> TRUE]

\* lines 644-654: the raw header hash at slot 0, then the type's extras
SignStep_header(tx, fail, s) ==
    LET marked == [s.acc EXCEPT !.indices[0] = 255]
    IN  IF ~Running(s) THEN s
        ELSE IF FailAt(fail, "hashRawHeader") # "none"
          THEN [s EXCEPT !.acc = marked, !.err = "zxerr_unknown"]
          ELSE LET a == crypto_addTxnHashes(tx,
                          [marked EXCEPT !.hashes[0] = crypto_hashRawHeader,
                                         !.hashesLen = 1])
               IN  [s EXCEPT !.acc = a, !.sigHashesLen = a.hashesLen]

\* a raw step that hashes the section with its key counted
SignStep_raw_oneKey(fail, s) ==
    LET h == crypto_hashSigSection([SignatureSection(s) EXCEPT !.pubKeysLen = 1], <<>>,
                                   FailAt(fail, "hashSigSection_raw"))
        sg == crypto_sign_ed25519(Slice(s.out, RawOffset + 1, ED25519_SIGNATURE_SIZE),
                                  HASH_LEN, "rawsig", FailAt(fail, "sign_raw"))
    IN  IF ~Running(s) THEN s
        ELSE IF h.error # "zxerr_ok" THEN Fails(s, h.error)
        ELSE [s EXCEPT !.acc.hashes[s.acc.hashesLen] = h.digest, !.rawMsg = h.digest,
                       !.out = WriteAt(s.out, RawOffset + 1, sg.output),
                       !.err = IF sg.error # "zxerr_ok" THEN sg.error ELSE "running",
                       !.raw_indices_len = s.acc.hashesLen,
                       !.raw_indices_buffer = IndexList(s.acc, s.acc.hashesLen)]

\* lines 660-681: hash the unsigned raw section, sign the digest, keep the
\* raw index list
SignStep_raw(fail, s) ==
    LET h == crypto_hashSigSection(SignatureSection(s), <<>>,
                                   FailAt(fail, "hashSigSection_raw"))
        sg == crypto_sign_ed25519(Slice(s.out, RawOffset + 1, ED25519_SIGNATURE_SIZE),
                                  HASH_LEN, "rawsig", FailAt(fail, "sign_raw"))
        held == [s.acc EXCEPT !.hashes[s.acc.hashesLen] = h.digest]
    IN  IF ~Running(s) THEN s
        ELSE IF h.error # "zxerr_ok" THEN Fails(s, h.error)
        ELSE IF sg.error # "zxerr_ok"
          THEN [s EXCEPT !.acc = held, !.rawMsg = h.digest, !.err = sg.error,
                         !.out = WriteAt(s.out, RawOffset + 1, sg.output)]
        ELSE [s EXCEPT !.acc = held, !.rawMsg = h.digest,
                       !.out = WriteAt(s.out, RawOffset + 1, sg.output),
                       !.raw_indices_len = s.acc.hashesLen,
                       !.raw_indices_buffer = IndexList(s.acc, s.acc.hashesLen)]

\* a step that counts the slot of the raw digest into the hash list before
\* it hashes the signed section
SignStep_signed_overOwnDigest(tx, fail, s) ==
    LET t == [s EXCEPT !.signaturesLen = 1, !.pubKeysLen = 1, !.sigHashesLen = @ + 1]
        h == crypto_hashSigSection(SignatureSection(t), <<3>>,
                                   FailAt(fail, "hashSigSection_signed"))
    IN  IF ~Running(s) THEN s
        ELSE IF h.error # "zxerr_ok" THEN Fails(t, h.error)
        ELSE [t EXCEPT !.acc = AccAppend(t.acc, h.digest, tx.sectionLen + 1 + 0)]

\* a step that keeps the raw index list after the signed section was appended
SignStep_signed_recapture(tx, fail, s) ==
    LET t == [s EXCEPT !.signaturesLen = 1, !.pubKeysLen = 1]
        h == crypto_hashSigSection(SignatureSection(t), <<3>>,
                                   FailAt(fail, "hashSigSection_signed"))
        a == AccAppend(t.acc, h.digest, tx.sectionLen + 1 + 0)
    IN  IF ~Running(s) THEN s
        ELSE IF h.error # "zxerr_ok" THEN Fails(t, h.error)
        ELSE [t EXCEPT !.acc = a,
                       !.sigHashesLen = @ + 1,
                       !.raw_indices_len = a.hashesLen,
                       !.raw_indices_buffer = IndexList(a, a.hashesLen)]

\* lines 686-697: hash the signed raw section with prefix 0x03 and append it
SignStep_signed(tx, fail, s) ==
    LET t == [s EXCEPT !.signaturesLen = 1, !.pubKeysLen = 1]
        h == crypto_hashSigSection(SignatureSection(t), <<3>>,
                                   FailAt(fail, "hashSigSection_signed"))
    IN  IF ~Running(s) THEN s
        ELSE IF h.error # "zxerr_ok" THEN Fails(t, h.error)
        ELSE [t EXCEPT !.acc = AccAppend(t.acc, h.digest, tx.sectionLen + 1 + 0),
                       !.sigHashesLen = @ + 1]

\* a step that appends the data section hash before the code section hash
SignStep_codeData_dataFirst(tx, fail, s) ==
    IF ~Running(s) THEN s
    ELSE IF FailAt(fail, "hashCodeSection") # "none"
              \/ FailAt(fail, "hashDataSection") # "none"
      THEN Fails(s, "zxerr_unknown")
    ELSE [s EXCEPT !.acc = AccAppend(AccAppend(s.acc, SectionHash("data"), tx.data.idx),
                                     SectionHash("code"), tx.code.idx),
                   !.sigHashesLen = @ + 2]

\* lines 699-710: the code and data section hashes
SignStep_codeData(tx, fail, s) ==
    LET n == s.acc.hashesLen
        idx == [s.acc EXCEPT !.indices[n] = U8(tx.code.idx),
                             !.indices[n + 1] = U8(tx.data.idx)]
    IN  IF ~Running(s) THEN s
        ELSE IF FailAt(fail, "hashCodeSection") # "none"
          THEN [s EXCEPT !.acc = idx, !.err = "zxerr_unknown"]
        ELSE IF FailAt(fail, "hashDataSection") # "none"
          THEN [s EXCEPT !.acc = [idx EXCEPT !.hashes[n] = SectionHash("code")],
                         !.err = "zxerr_unknown"]
        ELSE [s EXCEPT !.acc = AccAppend(AccAppend(s.acc, SectionHash("code"), tx.code.idx),
                                         SectionHash("data"), tx.data.idx),
                       !.sigHashesLen = @ + 2]

\* lines 712-720: the memo section hash, when there is a memo
SignStep_memo(tx, fail, s) ==
    IF ~Running(s) \/ ~tx.memoSection THEN s
    ELSE IF FailAt(fail, "hashExtraDataSection") # "none"
      THEN [s EXCEPT !.acc.indices[s.acc.hashesLen] = U8(tx.memo.idx),
                     !.err = "zxerr_unknown"]
    ELSE [s EXCEPT !.acc = AccAppend(s.acc, SectionHash("memo"), tx.memo.idx),
                   !.sigHashesLen = @ + 1]

\* line 732: memcmp(prev_sig->hashes.hashes.ptr, signature_section.hashes
\* .hashes.ptr, HASH_LEN) compares the first hash of the prior section with
\* the first hash of the accumulator, whatever j and k are
HashCompared(prev, hashes, j, k) == prev.hashes[1] = hashes[1]

\* lines 731-735: the value of k when the inner loop ends
InnerLoopEnd(prev, hashes, j) ==
    IF \E k \in 0..(Len(hashes) - 1) : HashCompared(prev, hashes, j, k)
      THEN CHOOSE k \in 0..(Len(hashes) - 1) :
             /\ HashCompared(prev, hashes, j, k)
             /\ \A m \in 0..(k - 1) : ~HashCompared(prev, hashes, j, m)
      ELSE Len(hashes)

\* lines 728-740: the value of j when the outer loop ends
OuterLoopEnd(prev, hashes) ==
    LET unrecognized == {j \in 0..(prev.hashesLen - 1) :
                            InnerLoopEnd(prev, hashes, j) = Len(hashes)}
    IN  IF unrecognized = {} THEN prev.hashesLen
        ELSE CHOOSE j \in unrecognized : \A m \in unrecognized : j <= m

\* lines 723-753: one iteration for prior signature section i (from 1)
SignStep_prevSig(tx, fail, s, i) ==
    LET prev == tx.signatures[i]
        known == HashList(s.acc, s.sigHashesLen)
        skipped == OuterLoopEnd(prev, known) # prev.hashesLen
        h == crypto_hashSigSection(prev, <<3>>, FailAt(fail, "hashSigSection_prev"))
        seen(appended) == Append(s.tested, [idx |-> prev.idx, lenAt |-> s.sigHashesLen,
                                            appended |-> appended])
    IN  IF skipped THEN [s EXCEPT !.tested = seen(FALSE)]
        ELSE IF h.error # "zxerr_ok"
          THEN [s EXCEPT !.tested = seen(FALSE), !.err = h.error]
        ELSE [s EXCEPT !.tested = seen(TRUE),
                       !.acc = AccAppend(s.acc, h.digest, prev.idx),
                       !.sigHashesLen = @ + 1]

RECURSIVE SignStep_prevSigs(_, _, _, _)
SignStep_prevSigs(tx, fail, s, i) ==
    IF i = 1 /\ ~Running(s) THEN s
    ELSE IF i > tx.signaturesLen \/ ~Running(s)
      THEN [s EXCEPT !.loopHashes = HashList(s.acc, s.acc.hashesLen)]
      ELSE SignStep_prevSigs(tx, fail, SignStep_prevSig(tx, fail, s, i), i + 1)

\* a wrapper step that appends the fee header hash at the end of the
\* accumulator and leaves slot 0 as it was
SignStep_wrapper_appended(fail, s) ==
    LET fee == [s EXCEPT !.acc = AccAppend(s.acc, crypto_hashFeeHeader, 0),
                         !.sigHashesLen = @ + 1,
                         !.signaturesLen = 0,
                         !.pubKeysLen = 0]
        h == crypto_hashSigSection(SignatureSection(fee), <<>>,
                                   FailAt(fail, "hashSigSection_wrapper"))
        sg == crypto_sign_ed25519(Slice(s.out, WrapperOffset + 1, ED25519_SIGNATURE_SIZE),
                                  HASH_LEN, "wrappersig", FailAt(fail, "sign_wrapper"))
    IN  IF ~Running(s) THEN s
        ELSE IF FailAt(fail, "hashFeeHeader") # "none" THEN Fails(s, "zxerr_unknown")
        ELSE IF h.error # "zxerr_ok" THEN Fails(fee, h.error)
        ELSE [fee EXCEPT !.wrapperMsg = h.digest,
                         !.out = WriteAt(s.out, WrapperOffset + 1, sg.output),
                         !.err = IF sg.error # "zxerr_ok" THEN sg.error ELSE "running"]

\* lines 755-768: the fee header hash over slot 0, the wrapper signature
SignStep_wrapper(fail, s) ==
    LET fee == [s EXCEPT !.acc.hashes[0] = crypto_hashFeeHeader,
                         !.acc.indices[0] = 0,
                         !.signaturesLen = 0,
                         !.pubKeysLen = 0]
        h == crypto_hashSigSection(SignatureSection(fee), <<>>,
                                   FailAt(fail, "hashSigSection_wrapper"))
        sg == crypto_sign_ed25519(Slice(s.out, WrapperOffset + 1, ED25519_SIGNATURE_SIZE),
                                  HASH_LEN, "wrappersig", FailAt(fail, "sign_wrapper"))
    IN  IF ~Running(s) THEN s
        ELSE IF FailAt(fail, "hashFeeHeader") # "none" THEN Fails(s, "zxerr_unknown")
        ELSE IF h.error # "zxerr_ok" THEN Fails(fee, h.error)
        ELSE [fee EXCEPT !.wrapperMsg = h.digest,
                         !.out = WriteAt(s.out, WrapperOffset + 1, sg.output),
                         !.err = IF sg.error # "zxerr_ok" THEN sg.error ELSE "running"]

\* a serialisation that takes the raw index list from the final accumulator
SignStep_indices_fromFinal(s) ==
    LET n == s.acc.hashesLen
        bytes == <<Lit(s.raw_indices_len)>>
                 \o [i \in 1..s.raw_indices_len |-> Lit(s.acc.indices[i - 1])]
                 \o <<Lit(U8(n))>>
                 \o [i \in 1..n |-> Lit(s.acc.indices[i - 1])]
    IN  IF ~Running(s) THEN s
        ELSE [s EXCEPT !.out = WriteAt(s.out, IndicesOffset, bytes),
                       !.oob = Beyond(Len(s.out), IndicesOffset, Len(bytes)),
                       !.err = "zxerr_ok"]

\* lines 780-787: the two index lists behind the wrapper signature
SignStep_indices(s) ==
    LET rawAt == IndicesOffset
        finalAt == IndicesOffset + 1 + s.raw_indices_len
        n == s.acc.hashesLen
        bytes == <<Lit(s.raw_indices_len)>>
                 \o [i \in 1..s.raw_indices_len |-> Lit(s.raw_indices_buffer[i])]
                 \o <<Lit(U8(n))>>
                 \o [i \in 1..n |-> Lit(s.acc.indices[i - 1])]
    IN  IF ~Running(s) THEN s
        ELSE
        [s EXCEPT !.out = WriteAt(s.out, rawAt, bytes),
                  !.oob = Beyond(Len(s.out), rawAt, Len(bytes)),
                  !.err = "zxerr_ok"]

\* crypto_sign as the code runs it, every write inside its array or not
crypto_sign(tx, output, fail) ==
    IF Len(output) < minimumBufferSize
      THEN [err |-> "zxerr_unknown", out |-> output, entered |-> FALSE]
      ELSE
        SignStep_indices(
          SignStep_wrapper(fail,
            SignStep_prevSigs(tx, fail,
              SignStep_memo(tx, fail,
                SignStep_codeData(tx, fail,
                  SignStep_signed(tx, fail,
                    SignStep_raw(fail,
                      SignStep_header(tx, fail,
                        SignStep_pubkey(output, fail)))))), 1)))

(***************************************************************************)
(* The calls of the signing side.  Writing past hashes_buffer,             *)
(* indices_buffer or output is undefined behaviour: the call either goes   *)
(* on as if the memory behind the array were its own ("benign") or the     *)
(* device faults and the call never returns ("crash").                     *)
(***************************************************************************)
OutLens == {minimumBufferSize - 1, minimumBufferSize, minimumBufferSize + OutSlack}

\* what the caller left in its buffer before the call
CallerContents == {"zero", "caller"}

CallerBuffer(content, n) ==
    IF content = "zero" THEN Zeros(n) ELSE ValueBytes("caller", n)

CryptoSignFails ==
    {<<"none", "none">>}
    \cup {<<"extractPublicKey", f>> : f \in ExtractFailPoints \ {"none"}}
    \cup {<<site, f>> : site \in {"sign_raw", "sign_wrapper"}, f \in SignFailPoints \ {"none"}}
    \cup {<<site, "sha256">> : site \in
            {"hashRawHeader", "hashSigSection_raw", "hashSigSection_signed",
             "hashCodeSection", "hashDataSection", "hashExtraDataSection",
             "hashSigSection_prev", "hashFeeHeader", "hashSigSection_wrapper"}}

\* The calls of crypto_sign the model tries: every transaction with a buffer
\* that is large enough and a healthy crypto engine, and every buffer length,
\* caller content and engine failure on the transactions with at most one
\* (recognized) prior signature section; and a healthy engine on the
\* transactions that carry a refused section alone, before or behind a
\* recognized one.
CryptoSignCalls ==
    {[type |-> type, memo |-> memo, kinds |-> kinds, outputLen |-> n,
      caller |-> "caller", fail |-> <<"none", "none">>] :
        type \in TxTypes, memo \in BOOLEAN,
        kinds \in SeqsUpTo(PrevSigKinds, MaxPrevSigs),
        n \in {minimumBufferSize + OutSlack}}
    \cup
    {[type |-> type, memo |-> memo, kinds |-> kinds, outputLen |-> n,
      caller |-> content, fail |-> fail] :
        type \in TxTypes, memo \in BOOLEAN, kinds \in {<<>>, <<"header">>},
        n \in OutLens, content \in CallerContents, fail \in CryptoSignFails}
    \cup
    {[type |-> type, memo |-> memo, kinds |-> kinds, outputLen |-> n,
      caller |-> "caller", fail |-> <<"none", "none">>] :
        type \in TxTypes, memo \in BOOLEAN,
        kinds \in UNION {{<<k>>, <<"header", k>>, <<k, "header">>} : k \in RefusedKinds},
        n \in {minimumBufferSize + OutSlack}}

UBOutcomes == {"benign", "crash"}

Undefined(r) == r.entered /\ (r.acc.overflow \/ r.oob # {})

TxOf(a) == ParsedTx(a.type, a.memo, a.kinds)

NoArgs == [none |-> TRUE]

NoRes == [err |-> "none"]

Init ==
    /\ op = "idle"
    /\ args = NoArgs
    /\ res = NoRes
    /\ spendlist = <<>>
    /\ outputlist = <<>>
    /\ convertlist = <<>>
    /\ sigstore = <<>>
    /\ sigread = 0

\* The device runs one command to completion before it accepts the next:
\* a call starts from the idle state, and the answer is sent before the
\* next call.
Respond ==
    /\ op # "idle"
    /\ op' = "idle"
    /\ args' = NoArgs
    /\ res' = NoRes
    /\ UNCHANGED storeVars

CryptoSign ==
    /\ op = "idle"
    /\ \E a \in CryptoSignCalls :
        LET r == crypto_sign(TxOf(a), CallerBuffer(a.caller, a.outputLen), a.fail)
        IN  \E ub \in (IF Undefined(r) THEN UBOutcomes ELSE {"benign"}) :
                /\ op' = "crypto_sign"
                /\ args' = a
                /\ res' = IF ub = "crash" THEN [r EXCEPT !.err = "crash"] ELSE r
                /\ UNCHANGED storeVars

CryptoExtractPublicKey ==
    /\ op = "idle"
    /\ \E n \in {PK_LEN_25519 - 1, PK_LEN_25519, PK_LEN_25519_PLUS_TAG},
          content \in CallerContents, fail \in ExtractFailPoints :
        /\ op' = "crypto_extractPublicKey_ed25519"
        /\ args' = [pubKeyLen |-> n, caller |-> content, fail |-> fail]
        /\ res' = crypto_extractPublicKey_ed25519(CallerBuffer(content, n), fail)
        /\ UNCHANGED storeVars

CryptoSignEd25519 ==
    /\ op = "idle"
    /\ \E n \in {ED25519_SIGNATURE_SIZE - 1, ED25519_SIGNATURE_SIZE, SIG_LEN_25519_PLUS_TAG},
          messageLen \in {0, HASH_LEN}, content \in CallerContents, fail \in SignFailPoints :
        /\ op' = "crypto_sign_ed25519"
        /\ args' = [outputLen |-> n, messageLen |-> messageLen, caller |-> content,
                    fail |-> fail]
        /\ res' = crypto_sign_ed25519(CallerBuffer(content, n), messageLen, "sig", fail)
        /\ UNCHANGED storeVars

\* a signature section with two keys and two signatures, of which the
\* first nKeys and nSigs are counted; badKey and badSig are the positions
\* (0: none) of an entry whose tag is neither ed25519 nor secp256k1
SigSection(signer, nKeys, badKey, nSigs, badSig) ==
    [kind |-> "case",
     idx |-> 0,
     salt |-> Zeros(SALT_LEN),
     hashes |-> <<crypto_hashRawHeader>>,
     hashesLen |-> 1,
     signerDiscriminant |-> signer,
     pubKeysLen |-> IF signer = "Address" THEN 0 ELSE nKeys,
     pubKeys |-> IF signer = "Address" THEN <<>>
                 ELSE [i \in 1..2 |->
                         [tag |-> IF i = badKey THEN key_secp256k1 + 1
                                  ELSE IF i = 1 THEN key_ed25519 ELSE key_secp256k1,
                          key |-> "pk"]],
     addressBytes |-> IF signer = "Address" THEN "address" ELSE "none",
     signaturesLen |-> nSigs,
     indexedSignatures |->
        [i \in 1..2 |->
            [idx |-> i - 1,
             tag |-> IF i = badSig THEN key_secp256k1 + 1
                     ELSE IF i = 1 THEN key_ed25519 ELSE key_secp256k1,
             sig |-> "sig"]]]

SigSectionCases ==
    {SigSection(signer, nKeys, badKey, nSigs, badSig) :
        signer \in {"PubKeys", "Address", "Other"}, nKeys \in 0..2, badKey \in 0..2,
        nSigs \in 0..2, badSig \in 0..2}

CryptoHashSigSection ==
    /\ op = "idle"
    /\ \E sec \in SigSectionCases, prefix \in {<<>>, <<3>>}, fail \in {"none", "sha256"} :
        /\ op' = "crypto_hashSigSection"
        /\ args' = [sec |-> sec, prefix |-> prefix, fail |-> fail]
        /\ res' = crypto_hashSigSection(sec, prefix, fail)
        /\ UNCHANGED storeVars

NextSign ==
    \/ CryptoSign
    \/ CryptoExtractPublicKey
    \/ CryptoSignEd25519
    \/ CryptoHashSigSection
    \/ Respond

\* the signing side: crypto_sign, the section hasher and the two ed25519
\* helpers
Spec == Init /\ [][NextSign]_vars

(***************************************************************************)
(* Two runs side by side, for what a result depends on.  A pair of         *)
(* crypto_sign runs gets the same transaction, output length and engine    *)
(* behaviour and two different contents of the caller's buffer; each run   *)
(* has its own outcome where the behaviour is undefined.  A pair of        *)
(* crypto_hashSigSection runs gets two sections that differ at most in     *)
(* their salt.                                                             *)
(***************************************************************************)
OtherContent(content) == IF content = "zero" THEN "caller" ELSE "zero"

Outcome(r, ub) == IF ub = "crash" THEN [r EXCEPT !.err = "crash"] ELSE r

CryptoSignPair ==
    /\ op = "idle"
    /\ \E a \in CryptoSignCalls :
        LET r1 == crypto_sign(TxOf(a), CallerBuffer(a.caller, a.outputLen), a.fail)
            r2 == crypto_sign(TxOf(a), CallerBuffer(OtherContent(a.caller), a.outputLen),
                              a.fail)
        IN  \E u1 \in (IF Undefined(r1) THEN UBOutcomes ELSE {"benign"}),
               u2 \in (IF Undefined(r2) THEN UBOutcomes ELSE {"benign"}) :
                /\ op' = "crypto_sign_pair"
                /\ args' = a
                /\ res' = [first |-> Outcome(r1, u1), second |-> Outcome(r2, u2)]
                /\ UNCHANGED storeVars

\* the salts a signature section may carry
Salts == {Zeros(SALT_LEN), ValueBytes("salt", SALT_LEN), ValueBytes("caller", SALT_LEN)}

\* the sections crypto_hashSigSection is applied to: the prior sections of
\* every kind, the device's own unsigned section, and a section signed by
\* an address
HashedSections ==
    {PrevSig(kind, 0) : kind \in PrevSigKinds}
    \cup {[PrevSig("header", 0) EXCEPT !.kind = "own", !.pubKeysLen = 0,
                                       !.pubKeys = <<[tag |-> key_ed25519, key |-> "pk"]>>,
                                       !.signaturesLen = 0, !.indexedSignatures = <<>>],
          [PrevSig("header", 0) EXCEPT !.kind = "address",
                                       !.signerDiscriminant = "Address",
                                       !.addressBytes = "address"]}

CryptoHashSigSectionPair ==
    /\ op = "idle"
    /\ \E sec \in HashedSections, prefix \in {<<>>, <<3>>}, salt1 \in Salts,
          salt2 \in Salts, fail \in {"none", "sha256"} :
        /\ op' = "crypto_hashSigSection_pair"
        /\ args' = [sec |-> sec, prefix |-> prefix, salt1 |-> salt1, salt2 |-> salt2,
                    fail |-> fail]
        /\ res' = [first |-> crypto_hashSigSection([sec EXCEPT !.salt = salt1],
                                                   prefix, fail),
                   second |-> crypto_hashSigSection([sec EXCEPT !.salt = salt2],
                                                    prefix, fail)]
        /\ UNCHANGED storeVars

NextPair == CryptoSignPair \/ CryptoHashSigSectionPair \/ Respond

\* pairs of runs of crypto_sign and of crypto_hashSigSection
SpecPair == Init /\ [][NextPair]_vars

(***************************************************************************)
(* Properties of the signing side, over the call that has just returned    *)
(* (op names it, args are its arguments, res is what it left behind).      *)
(***************************************************************************)
SignReturned == op = "crypto_sign" /\ res.entered /\ res.err # "crash"

SignSucceeded == op = "crypto_sign" /\ res.entered /\ res.err = "zxerr_ok"

\* the hashes the accumulator held when the prior section of test t was tested
KnownAt(t) == SubSeq(res.loopHashes, 1, t.lenAt)

\* every hash the prior section lists is byte-equal to one of known
ListsOnlyKnown(prev, known) ==
    \A j \in 1..prev.hashesLen : \E k \in 1..Len(known) : prev.hashes[j] = known[k]

\* C1: in a crypto_sign call that succeeds, a prior signature section has
\* its prefixed digest appended if and only if every hash it lists is held
\* by the accumulator at that moment.
C1_SubsetFilter ==
    SignSucceeded =>
        \A n \in 1..Len(res.tested) :
            res.tested[n].appended <=>
                ListsOnlyKnown(TxOf(args).signatures[n], KnownAt(res.tested[n]))

\* a call that succeeded although it appended a prior section listing a hash
\* the accumulator did not hold
C1_AppendedUnknown ==
    /\ SignSucceeded
    /\ \E n \in 1..Len(res.tested) :
        /\ res.tested[n].appended
        /\ ~ListsOnlyKnown(TxOf(args).signatures[n], KnownAt(res.tested[n]))

\* C2: the accumulator of crypto_sign never holds more than
\* MAX_SIGNATURE_HASHES hashes and nothing is written past the last slot.
C2_Capacity ==
    (op = "crypto_sign" /\ res.entered) =>
        /\ res.acc.hashesLen <= MAX_SIGNATURE_HASHES
        /\ ~res.acc.overflow

\* a call that returned success holding more hashes than the arrays have slots
C2_EleventhHeld ==
    /\ SignSucceeded
    /\ res.acc.hashesLen = MAX_SIGNATURE_HASHES + 1
    /\ res.acc.hashes[MAX_SIGNATURE_HASHES] # ZeroHash

\* C3: when crypto_sign returns an error, every byte of the caller's output
\* buffer is zero.
C3_ZeroOnError ==
    (op = "crypto_sign" /\ res.err \notin {"zxerr_ok", "crash"}) => AllZero(res.out)

\* a call that failed at the wrapper signature and returned with the public
\* key and the raw signature still in the buffer
C3_KeyAndRawSigLeft ==
    /\ SignReturned
    /\ res.err # "zxerr_ok"
    /\ args.fail[1] = "sign_wrapper"
    /\ NameOf(Slice(res.out, 1, PK_LEN_25519)) = "pk"
    /\ NameOf(Slice(res.out, RawOffset + 1, ED25519_SIGNATURE_SIZE)) = "rawsig"

\* the bytes crypto_sign leaves in a buffer of length n with the wrapper
\* block at offset w: tag and public key, the salt area, tag and raw
\* signature, zeros up to w, tag and wrapper signature, then the two counted
\* index lists
Layout(n, w, rawIdx, finalIdx) ==
    LET blocks == <<Lit(key_ed25519)>> \o ValueBytes("pk", PK_LEN_25519)
                  \o Zeros(SALT_LEN)
                  \o <<Lit(key_ed25519)>> \o ValueBytes("rawsig", ED25519_SIGNATURE_SIZE)
                  \o Zeros(w - 130)
                  \o <<Lit(key_ed25519)>> \o ValueBytes("wrappersig", ED25519_SIGNATURE_SIZE)
                  \o <<Lit(Len(rawIdx))>> \o [i \in 1..Len(rawIdx) |-> Lit(rawIdx[i])]
                  \o <<Lit(Len(finalIdx))>> \o [i \in 1..Len(finalIdx) |-> Lit(finalIdx[i])]
    IN  IF Len(blocks) >= n THEN SubSeq(blocks, 1, n)
        ELSE blocks \o Zeros(n - Len(blocks))

\* C7 as stated: after a successful crypto_sign the wrapper signature block
\* starts at offset 130, right behind the raw signature block, and the raw
\* index count is the byte at offset 195.
C7_LayoutNoGap ==
    SignSucceeded =>
        res.out = Layout(Len(res.out), 130, res.raw_indices_buffer,
                         IndexList(res.acc, res.acc.hashesLen))

\* C7 amended: after a successful crypto_sign the buffer holds tag and
\* public key at 0..32, the zeroed salt area at 33..64, tag and raw signature
\* at 65..129, SALT_LEN zero bytes at 130..161, tag and wrapper signature at
\* 162..226, the raw index count at 227 followed by the raw indices, then
\* the final index count followed by the final indices, as far as the
\* buffer reaches, and zeros behind them.
C7_LayoutWithGap ==
    SignSucceeded =>
        res.out = Layout(Len(res.out), 162, res.raw_indices_buffer,
                         IndexList(res.acc, res.acc.hashesLen))

\* a successful call whose two index lists are not empty and fit the buffer
C7_Signed ==
    /\ SignSucceeded
    /\ res.raw_indices_len >= 2
    /\ res.acc.hashesLen > res.raw_indices_len
    /\ res.oob = {}
    /\ res.out[164] = <<"wrappersig", 0>>

\* C8: with an output buffer of exactly minimumBufferSize bytes, every byte
\* crypto_sign writes lies inside the buffer.
C8_WritesInside ==
    (op = "crypto_sign" /\ res.entered /\ args.outputLen = minimumBufferSize) =>
        res.oob = {}

\* a call with a buffer of exactly minimumBufferSize bytes, no more than
\* MAX_SIGNATURE_HASHES hashes held, and an index byte written at offset
\* minimumBufferSize
C8_IndexPastEnd ==
    /\ op = "crypto_sign" /\ res.entered
    /\ args.outputLen = minimumBufferSize
    /\ ~res.acc.overflow
    /\ minimumBufferSize \in res.oob

\* C10: at every return of crypto_extractPublicKey_ed25519 and
\* crypto_sign_ed25519 reached after the key derivation was called, the
\* derived key bytes and the private key object are zero, and on an error
\* return the output area is all zero.
C10_KeysWiped ==
    /\ (op = "crypto_extractPublicKey_ed25519" /\ res.reached) =>
        /\ res.privateKeyData = "zero"
        /\ res.cx_privateKey = "zero"
        /\ res.error # "zxerr_ok" => AllZero(res.pubKey)
    /\ (op = "crypto_sign_ed25519" /\ res.reached) =>
        /\ res.privateKeyData = "zero"
        /\ res.cx_privateKey = "zero"
        /\ res.error # "zxerr_ok" => AllZero(res.output)

\* a key extraction that failed after the private key was initialised, on a
\* buffer the caller had filled
C10_FailedAfterDerive ==
    /\ op = "crypto_extractPublicKey_ed25519"
    /\ res.reached
    /\ args.fail = "generate_pair"
    /\ args.caller = "caller"
    /\ res.error = "zxerr_unknown"

C18_SaltInDigest ==
    ( /\ op = "crypto_hashSigSection_pair"
      /\ args.salt1 # args.salt2
      /\ res.first.error = "zxerr_ok"
      /\ res.second.error = "zxerr_ok" )
        => res.first.digest # res.second.digest

\* the device's own unsigned section hashed with a zero salt and with a
\* random salt, both digests the same
C18_SameDigest ==
    /\ op = "crypto_hashSigSection_pair"
    /\ args.sec.kind = "own"
    /\ args.salt1 = Zeros(SALT_LEN)
    /\ args.salt2 = ValueBytes("salt", SALT_LEN)
    /\ res.first.error = "zxerr_ok"
    /\ res.first.digest = res.second.digest

\* the origin indices the transaction gives for the section a hash is of
Origins(tx, h) ==
    IF h[1] = "hdr" THEN (IF h = crypto_hashRawHeader THEN {255} ELSE {0})
    ELSE IF h[1] = "sec"
      THEN CASE h[2] = "code" -> {tx.code.idx}
             [] h[2] = "data" -> {tx.data.idx}
             [] h[2] = "memo" -> {tx.memo.idx}
             [] h[2] = "vp_type" -> {tx.vp_type_secidx}
             [] h[2] = "content" -> {tx.content_secidx}
             [] h[2] = "proposal_code" -> {tx.proposal_code_secidx}
             [] OTHER -> {}
    ELSE IF h[1] = "sigsec"
      THEN IF h[6][2] = 1 /\ h[6][3][1][2] = "pk"
             THEN {U8(tx.sectionLen + 1)}
             ELSE {tx.signatures[i].idx : i \in
                     {k \in 1..tx.signaturesLen :
                        crypto_hashSigSection(tx.signatures[k], <<3>>, "none").digest = h}}
    ELSE {}

\* the byte at offset o of the response is b, or o lies past the buffer and
\* the call wrote there
HoldsAt(o, b) ==
    IF o < Len(res.out) THEN res.out[o + 1] = b ELSE o \in res.oob

\* C16: after a successful crypto_sign the raw index count byte is the
\* number of hashes the raw signature signed over, the final index count
\* byte is the number of hashes the wrapper signature signed over, which is
\* the final length of the accumulator, and the k-th index byte of each list
\* is an origin index of the section the k-th hash of that list is of.
C16_CountsAndOrigins ==
    SignSucceeded =>
        LET tx == TxOf(args)
            rawN == res.rawMsg[3]
            finN == res.wrapperMsg[3]
            finAt == IndicesOffset + 1 + rawN
        IN  /\ HoldsAt(IndicesOffset, Lit(rawN))
            /\ HoldsAt(finAt, Lit(finN))
            /\ finN = res.acc.hashesLen
            /\ \A k \in 1..rawN :
                  \E o \in Origins(tx, res.rawMsg[4][k]) :
                      HoldsAt(IndicesOffset + k, Lit(o))
            /\ \A k \in 1..finN :
                  \E o \in Origins(tx, res.wrapperMsg[4][k]) :
                      HoldsAt(finAt + k, Lit(o))

\* a successful call on a proposal with wasm and a memo that included a prior
\* section, all index bytes inside the buffer
C16_ListsOfThreeAndEight ==
    /\ SignSucceeded
    /\ res.oob = {}
    /\ res.out[IndicesOffset + 1] = Lit(3)
    /\ res.out[IndicesOffset + 5] = Lit(8)
    /\ res.rawMsg[3] = 3
    /\ res.wrapperMsg[3] = 8

\* the origin indices of the extra sections of the transaction type
ExtraIndices(tx) ==
    IF tx.typeTx \in {"InitAccount", "UpdateVP"} THEN <<tx.vp_type_secidx>>
    ELSE IF tx.typeTx = "InitProposal"
      THEN IF tx.proposal_type = "DefaultWithWasm"
             THEN <<tx.content_secidx, tx.proposal_code_secidx>>
             ELSE <<tx.content_secidx>>
    ELSE <<>>

\* the origin indices of the prior sections the call appended
RECURSIVE AppendedIndices(_)
AppendedIndices(tested) ==
    IF tested = <<>> THEN <<>>
    ELSE (IF Head(tested).appended THEN <<Head(tested).idx>> ELSE <<>>)
         \o AppendedIndices(Tail(tested))

\* the origin indices held before the signed raw section is appended
IndicesBeforeSigned(tx) == <<255>> \o ExtraIndices(tx)

\* the origin indices held at the end of the call
IndicesAtEnd(tx, tested) ==
    <<0>> \o ExtraIndices(tx)
    \o <<U8(tx.sectionLen + 1), tx.code.idx, tx.data.idx>>
    \o (IF tx.memoSection THEN <<tx.memo.idx>> ELSE <<>>)
    \o AppendedIndices(tested)

\* C17 as stated: the raw index list of the response is the origin-index
\* list just after the digest of the signed raw section and its index have
\* been appended; the final list is the one at the end of the call.
C17_RawListAfterSigned ==
    SignSucceeded =>
        res.out = Layout(Len(res.out), WrapperOffset,
                         IndicesBeforeSigned(TxOf(args))
                            \o <<U8(TxOf(args).sectionLen + 1)>>,
                         IndicesAtEnd(TxOf(args), res.tested))

\* C17 amended: the raw index list of the response is the origin-index list
\* as it stands when the raw signature is made, before the digest of the
\* signed raw section is appended (the header sentinel 255, then the
\* indices of the extra sections); the final list is the origin-index list
\* at the end of the call.
C17_RawListBeforeSigned ==
    SignSucceeded =>
        res.out = Layout(Len(res.out), WrapperOffset,
                         IndicesBeforeSigned(TxOf(args)),
                         IndicesAtEnd(TxOf(args), res.tested))

\* a successful call on a transaction with an extra section whose final
\* list holds the index of the signed raw section and more
C17_SignedSectionOnlyInFinal ==
    /\ SignSucceeded
    /\ res.oob = {}
    /\ res.raw_indices_len = 2
    /\ res.out[IndicesOffset + 1] = Lit(2)
    /\ res.out[IndicesOffset + 4] = Lit(5)
    /\ res.out[IndicesOffset + 7] = Lit(U8(TxOf(args).sectionLen + 1))

\* C19: at the end of a successful crypto_sign the SALT_LEN bytes of the
\* salt region are the bytes the caller had placed there.
C19_SaltKept ==
    SignSucceeded =>
        Slice(res.out, SaltOffset, SALT_LEN)
            = Slice(CallerBuffer(args.caller, args.outputLen), SaltOffset, SALT_LEN)

\* a successful call on a buffer whose salt region the caller had filled,
\* the region all zero at return
C19_SaltWiped ==
    /\ SignSucceeded
    /\ args.caller = "caller"
    /\ ~AllZero(Slice(CallerBuffer(args.caller, args.outputLen), SaltOffset, SALT_LEN))
    /\ AllZero(Slice(res.out, SaltOffset, SALT_LEN))

\* the hash input of an unprefixed section with the hashes held when the
\* raw signature is made, n keys counted and no signature
RawSectionInput(tx, n) ==
    <<"sigsec", <<>>, 1 + NumExtras(<<tx.typeTx, tx.proposal_type>>),
      <<crypto_hashRawHeader>>
        \o (IF tx.typeTx \in {"InitAccount", "UpdateVP"} THEN <<tx.vp_type_sechash>>
            ELSE IF tx.typeTx = "InitProposal"
              THEN IF tx.proposal_type = "DefaultWithWasm"
                     THEN <<tx.content_sechash, tx.proposal_code_sechash>>
                     ELSE <<tx.content_sechash>>
            ELSE <<>>),
      "PubKeys",
      <<"pubkeys", n, [i \in 1..n |-> <<key_ed25519, "pk">>]>>,
      0, <<>> >>

\* C20 as stated: the digest signed as the raw signature is the unprefixed
\* hash of a section with signer PubKeys, key count 1, the device's tag and
\* public key as its key, no signature, and the hashes accumulated so far.
C20_RawSectionOneKey ==
    (SignReturned /\ res.rawMsg # ZeroHash) =>
        res.rawMsg = RawSectionInput(TxOf(args), 1)

\* C20 amended: the digest signed as the raw signature is the unprefixed
\* hash of a section with signer PubKeys, key count 0 and no key bytes, no
\* signature, and the hashes accumulated so far (the raw header hash, then
\* the hashes of the extra sections of the transaction type).
C20_RawSectionNoKey ==
    (SignReturned /\ res.rawMsg # ZeroHash) =>
        res.rawMsg = RawSectionInput(TxOf(args), 0)

\* a successful call on a proposal with wasm, whose raw signature is over
\* three hashes
C20_RawSigned ==
    /\ SignSucceeded
    /\ res.rawMsg[3] = 3
    /\ NameOf(Slice(res.out, RawOffset + 1, ED25519_SIGNATURE_SIZE)) = "rawsig"

(***************************************************************************)
(* MASP.  The randomness lists are the device-held stores filled by        *)
(* crypto_computeRandomness; item i of a list holds the scalars handed to  *)
(* the append call that recorded it.  The lists are indexed from 0 in the  *)
(* code and from 1 here.                                                   *)
(***************************************************************************)
\* spend_append_rand_item(rcv, alpha): the item the spend list records
spend_append_rand_item(rcv, alpha) == [rcv |-> rcv, alpha |-> alpha]

\* output_append_rand_item(rcv, rcm)
output_append_rand_item(rcv, rcm) == [rcv |-> rcv, rcm |-> rcm]

\* convert_append_rand_item(rcv)
convert_append_rand_item(rcv) == [rcv |-> rcv]

\* spendlist_retrieve_rand_item(i) and its two siblings
RetrieveItem(list, i) == list[i + 1]

\* the build the model describes is the production build
APP_TESTING == FALSE

\* computeValueCommitment(value, rcv, identifier, cv)
computeValueCommitment(value, rcv, identifier) == <<"cv", value, rcv, identifier>>

\* computeRk(keys, alpha, rk)
computeRk(keys, alpha) == <<"rk", keys.ak, alpha>>

\* keys_t: what the structure holds
ZeroKeys == [held |-> "zero", ask |-> "zero", ak |-> "zero"]

MasterKeys == [held |-> "secret", ask |-> "zero", ak |-> "zero"]

FullKeys == [held |-> "secret", ask |-> "ask", ak |-> "ak"]

(***************************************************************************)
(* The MASP part of a parsed transaction.  The builder carries the         *)
(* descriptions (asset identifier and value), the bundle carries the       *)
(* on-wire slots (cv, and rk for a spend), the metadata carries the output *)
(* indices.  HonestTx is the transaction a host builds from the items the  *)
(* device holds; Tampered changes it in the named places.                  *)
(***************************************************************************)
Description(kind, i) == [identifier |-> <<"asset", kind>>, value |-> 10 + i]

HonestCv(kind, item, i) ==
    computeValueCommitment(Description(kind, i).value, item.rcv,
                           Description(kind, i).identifier)

\* a commitment to another value
OtherCv(kind, item, i) ==
    computeValueCommitment(Description(kind, i).value + 1, item.rcv,
                           Description(kind, i).identifier)

\* a verification key randomized with another alpha
OtherRk(i) == computeRk(FullKeys, <<"foreign_alpha", i>>)

TamperAtoms ==
    {<<"spend_count", 0>>, <<"output_count", 0>>, <<"convert_count", 0>>}
    \cup {<<"spend_cv", i>> : i \in 0..(MaxSpends - 1)}
    \cup {<<"spend_rk", i>> : i \in 0..(MaxSpends - 1)}
    \cup {<<"output_cv", i>> : i \in 0..(MaxOutputs - 1)}
    \cup {<<"convert_cv", i>> : i \in 0..(MaxConverts - 1)}

\* at most two places changed
Tampers == {T \in SUBSET TamperAtoms : Cardinality(T) <= 2}

\* the streams of output indices a host may send, by name
IndexStreams == {"identity", "reversed", "all_first"}

\* the k-th entry (from 0) of the named stream of n indices
StreamEntry(name, n, k) ==
    CASE name = "reversed" -> n - 1 - k
      [] name = "all_first" -> 0
      [] OTHER -> k

\* how the host filled output slot j of the bundle: "by_index" commits slot
\* j to builder description j, "by_counter" commits the slot the k-th index
\* entry names to builder description k
Pairings == {"by_index", "by_counter"}

PairedDescription(pairing, indices, j) ==
    IF pairing = "by_counter" /\ \E k \in 1..Len(indices) : indices[k] = j
      THEN (CHOOSE k \in 1..Len(indices) :
                /\ indices[k] = j
                /\ \A m \in 1..(k - 1) : indices[m] # j) - 1
      ELSE j

\* the bytes that follow the shielded converts in the transaction buffer:
\* foreign bytes, or the commitment of the last convert
Trailings == {"foreign", "crafted"}

\* a count tamper makes the builder declare one more item than the bundle
\* (or, for the outputs, than the metadata) does
MaspTx(spends, outputs, converts, T, stream, pairing, trailing) ==
    LET ns == Len(spends)
        no == Len(outputs)
        nc == Len(converts)
        more(a) == IF <<a, 0>> \in T THEN 1 ELSE 0
        indices == [i \in 1..no |-> StreamEntry(stream, no, i - 1)]
    IN  [n_spends |-> ns + more("spend_count"),
         builder_spends |-> [i \in 1..(ns + more("spend_count")) |->
                                Description("spend", i - 1)],
         n_shielded_spends |-> ns,
         shielded_spends |-> [i \in 1..ns |->
            [cv |-> IF <<"spend_cv", i - 1>> \in T
                      THEN OtherCv("spend", spends[i], i - 1)
                      ELSE HonestCv("spend", spends[i], i - 1),
             nullifier |-> <<"nullifier", i - 1>>,
             rk |-> IF <<"spend_rk", i - 1>> \in T
                      THEN OtherRk(i - 1)
                      ELSE computeRk(FullKeys, spends[i].alpha)]],
         n_outputs |-> no + more("output_count"),
         builder_outputs |-> [i \in 1..(no + more("output_count")) |->
                                Description("output", i - 1)],
         n_outputs_indices |-> no,
         outputs_indices |-> indices,
         n_shielded_outputs |-> no,
         shielded_outputs |-> [i \in 1..no |->
            [cv |-> IF <<"output_cv", i - 1>> \in T
                      THEN OtherCv("output", outputs[i],
                                   PairedDescription(pairing, indices, i - 1))
                      ELSE HonestCv("output", outputs[i],
                                    PairedDescription(pairing, indices, i - 1))]],
         n_converts |-> nc + more("convert_count"),
         builder_converts |-> [i \in 1..(nc + more("convert_count")) |->
                                Description("convert", i - 1)],
         n_shielded_converts |-> nc,
         shielded_converts |-> [i \in 1..nc |->
            [cv |-> IF <<"convert_cv", i - 1>> \in T
                      THEN OtherCv("convert", converts[i], i - 1)
                      ELSE HonestCv("convert", converts[i], i - 1)]],
         after_shielded_converts |->
            [cv |-> IF trailing = "crafted" /\ nc > 0
                      THEN HonestCv("convert", converts[nc], nc - 1)
                      ELSE <<"foreign_bytes">>]]

(***************************************************************************)
(* The three MASP checks.  Each returns its parser error together with     *)
(* the descriptions it read (loop counters) and the items it retrieved     *)
(* from its list (item indices), in order.  A parser context offset        *)
(* counts whole bundle slots, and inside a slot the fields skipped.  The description readers and the commitment  *)
(* engine succeed on a parsed transaction, and a transaction never has     *)
(* more items than the device holds.                                       *)
(***************************************************************************)
NotRun == [err |-> "not_run", described |-> <<>>, retrieved |-> <<>>]

\* the field of a bundle slot the context points at after it has advanced
\* over the fields skipped
SlotField(slot, skipped) ==
    CASE skipped = <<>> -> slot.cv
      [] skipped = <<"CV_LEN">> -> slot.nullifier
      [] skipped = <<"CV_LEN", "NULLIFIER_LEN">> -> slot.rk

\* a verdict that leaves the value commitment uncompared
SpendVerdict_rkOnly(tx, keys, list, i) ==
    IF ~APP_TESTING /\ computeRk(keys, RetrieveItem(list, i).alpha)
                          # tx.shielded_spends[i + 1].rk
      THEN "parser_invalid_rk"
      ELSE "parser_ok"

\* a verdict that looks for the verification key right behind the value
\* commitment
SpendVerdict_rkBehindCv(tx, keys, list, i) ==
    LET d == tx.builder_spends[i + 1]
        slot == tx.shielded_spends[0 + i + 1]
        item == RetrieveItem(list, i)
    IN  IF computeValueCommitment(d.value, item.rcv, d.identifier) # SlotField(slot, <<>>)
          THEN "parser_invalid_cv"
        ELSE IF ~APP_TESTING
                  /\ computeRk(keys, item.alpha) # SlotField(slot, <<"CV_LEN">>)
          THEN "parser_invalid_rk"
        ELSE "parser_ok"

\* lines 1057-1086: the verdict of checkSpends on spend i; both contexts
\* start the iteration at offset 0
SpendVerdict(tx, keys, list, i) ==
    LET d == tx.builder_spends[i + 1]
        slot == tx.shielded_spends[0 + i + 1]
        item == RetrieveItem(list, i)
    IN  IF computeValueCommitment(d.value, item.rcv, d.identifier) # SlotField(slot, <<>>)
          THEN "parser_invalid_cv"
        ELSE IF ~APP_TESTING
                  /\ computeRk(keys, item.alpha)
                        # SlotField(slot, <<"CV_LEN", "NULLIFIER_LEN">>)
          THEN "parser_invalid_rk"
        ELSE "parser_ok"

RECURSIVE SpendsLoop(_, _, _, _, _)
SpendsLoop(tx, keys, list, i, seen) ==
    IF i >= tx.n_spends
      THEN [err |-> "parser_ok", described |-> seen, retrieved |-> seen]
      ELSE LET v == SpendVerdict(tx, keys, list, i)
           IN  IF v # "parser_ok"
                 THEN [err |-> v, described |-> Append(seen, i),
                       retrieved |-> Append(seen, i)]
                 ELSE SpendsLoop(tx, keys, list, i + 1, Append(seen, i))

\* checkSpends(txObj, keys, builder_spends_ctx, tx_spends_ctx)
checkSpends(tx, keys, list) ==
    IF tx.n_spends # tx.n_shielded_spends
      THEN [err |-> "parser_invalid_number_of_spends", described |-> <<>>,
            retrieved |-> <<>>]
      ELSE SpendsLoop(tx, keys, list, 0, <<>>)

\* lines 1100-1125: the verdict of checkOutputs on iteration i, whose index
\* read from the indices stream is indice
OutputVerdict(tx, list, i, indice) ==
    LET d == tx.builder_outputs[i + 1]
        slot == tx.shielded_outputs[0 + indice + 1]
        item == RetrieveItem(list, indice)
    IN  IF computeValueCommitment(d.value, item.rcv, d.identifier) # slot.cv
          THEN "parser_invalid_cv"
          ELSE "parser_ok"

RECURSIVE OutputsLoop(_, _, _, _, _)
OutputsLoop(tx, list, i, described, retrieved) ==
    IF i >= tx.n_outputs_indices
      THEN [err |-> "parser_ok", described |-> described, retrieved |-> retrieved]
      ELSE LET indice == tx.outputs_indices[i + 1]
               v == OutputVerdict(tx, list, i, indice)
               r == [err |-> v, described |-> Append(described, i),
                     retrieved |-> Append(retrieved, indice)]
           IN  IF v # "parser_ok" THEN r
               ELSE OutputsLoop(tx, list, i + 1, r.described, r.retrieved)

\* a checkOutputs that goes into its loop whatever the two counts are
checkOutputs_noCount(tx, list) == OutputsLoop(tx, list, 0, <<>>, <<>>)

\* checkOutputs(txObj, builder_outputs_ctx, tx_outputs_ctx, indices_ctx)
checkOutputs(tx, list) ==
    IF tx.n_outputs # tx.n_outputs_indices
      THEN [err |-> "parser_invalid_number_of_outputs", described |-> <<>>,
            retrieved |-> <<>>]
      ELSE OutputsLoop(tx, list, 0, <<>>, <<>>)

\* a loop over the converts in which convert i is compared with the bundle
\* slot at offset i * SHIELDED_CONVERTS_LEN, whatever was checked before
RECURSIVE ConvertsAtOwnOffset(_, _, _, _, _)
ConvertsAtOwnOffset(tx, list, i, offset, seen) ==
    IF i >= tx.n_converts
      THEN [err |-> "parser_ok", described |-> seen, retrieved |-> seen]
    ELSE LET d == tx.builder_converts[i + 1]
             slot == tx.shielded_converts[i + 1]
             item == RetrieveItem(list, i)
         IN  IF computeValueCommitment(d.value, item.rcv, d.identifier) # slot.cv
               THEN [err |-> "parser_invalid_cv", described |-> Append(seen, i),
                     retrieved |-> Append(seen, i)]
               ELSE ConvertsAtOwnOffset(tx, list, i + 1, 0, Append(seen, i))

\* lines 1138-1158: checkConverts from iteration i on; offset is
\* tx_converts_ctx->offset, which the loop advances by i slots in iteration
\* i and never sets back.  An advance beyond the bundle is refused; an
\* advance to the very end of the bundle is not, and the commitment is then
\* compared with the bytes that follow the bundle.
RECURSIVE ConvertsLoop(_, _, _, _, _)
ConvertsLoop(tx, list, i, offset, seen) ==
    IF i >= tx.n_converts
      THEN [err |-> "parser_ok", described |-> seen, retrieved |-> seen]
    ELSE IF offset + i > tx.n_shielded_converts
      THEN [err |-> "parser_unexpected_buffer_end", described |-> Append(seen, i),
            retrieved |-> seen]
    ELSE LET d == tx.builder_converts[i + 1]
             slot == IF offset + i = tx.n_shielded_converts
                       THEN tx.after_shielded_converts
                       ELSE tx.shielded_converts[offset + i + 1]
             item == RetrieveItem(list, i)
         IN  IF computeValueCommitment(d.value, item.rcv, d.identifier) # slot.cv
               THEN [err |-> "parser_invalid_cv", described |-> Append(seen, i),
                     retrieved |-> Append(seen, i)]
               ELSE ConvertsLoop(tx, list, i + 1, offset + i, Append(seen, i))

\* checkConverts(txObj, builder_converts_ctx, tx_converts_ctx)
checkConverts(tx, list) ==
    IF tx.n_converts # tx.n_shielded_converts
      THEN [err |-> "parser_invalid_number_of_outputs", described |-> <<>>,
            retrieved |-> <<>>]
      ELSE ConvertsLoop(tx, list, 0, 0, <<>>)

\* CHECK_PARSER_OK: any parser error leaves as zxerr_unknown
CHECK_PARSER_OK(parserErr) == IF parserErr = "parser_ok" THEN "zxerr_ok" ELSE "zxerr_unknown"

\* crypto_check_masp(txObj, keys): spends, then outputs, then converts
crypto_check_masp(tx, keys, spends, outputs, converts) ==
    LET s == checkSpends(tx, keys, spends)
        o == checkOutputs(tx, outputs)
        c == checkConverts(tx, converts)
    IN  IF s.err # "parser_ok"
          THEN [err |-> CHECK_PARSER_OK(s.err), spends |-> s, outputs |-> NotRun,
                converts |-> NotRun, trace |-> << <<"checkSpends", 0>> >>]
        ELSE IF o.err # "parser_ok"
          THEN [err |-> CHECK_PARSER_OK(o.err), spends |-> s, outputs |-> o,
                converts |-> NotRun,
                trace |-> << <<"checkSpends", 0>>, <<"checkOutputs", 0>> >>]
        ELSE [err |-> CHECK_PARSER_OK(c.err), spends |-> s, outputs |-> o,
              converts |-> c,
              trace |-> << <<"checkSpends", 0>>, <<"checkOutputs", 0>>,
                           <<"checkConverts", 0>> >>]

(***************************************************************************)
(* Spend signing.  fail = <<site, k>> names the one engine or store call   *)
(* that fails (<<"none", 0>>: none): "seed" the bip32 derivation,          *)
(* "master_clean" and "master_partial" computeMasterFromSeed (leaving the  *)
(* spending key untouched or partly written), "computeKeys" a key          *)
(* conversion, "sign" a scalar operation of sign_sapling_spend on spend k, *)
(* "append" spend_signatures_append on spend k (the error it hands back is *)
(* not told apart from zxerr_unknown: crypto_sign_masp maps either to one  *)
(* error).  A local buffer is described by what it holds at return:        *)
(* "zero" or "secret".                                                     *)
(***************************************************************************)
MaspFails ==
    {<<"none", 0>>, <<"seed", 0>>, <<"master_clean", 0>>, <<"master_partial", 0>>,
     <<"computeKeys", 0>>}
    \cup {<<site, k>> : site \in {"sign", "append"}, k \in 0..(MaxSpends - 1)}

\* signature_hash(txObj, sign_hash): a digest of the bundle
signature_hash(tx) ==
    <<"sighash", tx.shielded_spends, tx.shielded_outputs, tx.shielded_converts>>

NoScratch == [rsk |-> "zero", r |-> "zero", rng |-> "zero"]

\* sign_sapling_spend(keys, alpha, sign_hash, signature): rsk, rng and r are
\* filled and not cleared before either return
sign_sapling_spend(keys, alpha, sign_hash, failed) ==
    [err |-> IF failed THEN "zxerr_unknown" ELSE "zxerr_ok",
     signature |-> <<"spendsig", keys.ask, alpha, sign_hash>>,
     scratch |-> [rsk |-> "secret", r |-> "secret", rng |-> "secret"]]

\* a loop that signs every spend with the alpha of the first item
RECURSIVE SignSpendsLoop_firstAlpha(_, _, _, _, _, _)
SignSpendsLoop_firstAlpha(tx, keys, list, fail, i, acc) ==
    IF i >= tx.n_spends THEN acc
    ELSE LET sg == sign_sapling_spend(keys, RetrieveItem(list, 0).alpha,
                                      signature_hash(tx), fail = <<"sign", i>>)
             signed == [acc EXCEPT !.trace = Append(@, <<"sign", i>>),
                                   !.scratch = sg.scratch]
         IN  IF sg.err # "zxerr_ok" \/ fail = <<"append", i>>
               THEN [signed EXCEPT !.err = "zxerr_unknown"]
             ELSE SignSpendsLoop_firstAlpha(tx, keys, list, fail, i + 1,
                    [signed EXCEPT !.trace = Append(@, <<"append", i>>),
                                   !.store = Append(@, sg.signature)])

\* lines 1020-1031: the loop of crypto_sign_spends_sapling from spend i on
RECURSIVE SignSpendsLoop(_, _, _, _, _, _)
SignSpendsLoop(tx, keys, list, fail, i, acc) ==
    IF i >= tx.n_spends THEN acc
    ELSE LET item == RetrieveItem(list, i)
             sg == sign_sapling_spend(keys, item.alpha, signature_hash(tx),
                                      fail = <<"sign", i>>)
             signed == [acc EXCEPT !.trace = Append(@, <<"sign", i>>),
                                   !.scratch = sg.scratch]
         IN  IF sg.err # "zxerr_ok" THEN [signed EXCEPT !.err = sg.err]
             ELSE IF fail = <<"append", i>>
               THEN [signed EXCEPT !.err = "zxerr_unknown",
                                   !.trace = Append(@, <<"append", i>>)]
             ELSE SignSpendsLoop(tx, keys, list, fail, i + 1,
                    [signed EXCEPT !.trace = Append(@, <<"append", i>>),
                                   !.store = Append(@, sg.signature)])

\* crypto_sign_spends_sapling(txObj, keys)
crypto_sign_spends_sapling(tx, keys, list, store, fail) ==
    LET start == [err |-> "zxerr_ok", store |-> store, trace |-> <<>>,
                  scratch |-> NoScratch]
    IN  IF tx.n_shielded_spends = 0 THEN start
        ELSE SignSpendsLoop(tx, keys, list, fail, 0,
                            [start EXCEPT !.trace = << <<"signature_hash", 0>> >>])

\* crypto_computeSaplingSeed(spendingKey): the seed is zero on an error
\* return, and privateKeyData is cleared on both
crypto_computeSaplingSeed(fail) ==
    IF fail[1] = "seed"
      THEN [err |-> "zxerr_unknown", spendingKey |-> "zero", privateKeyData |-> "zero"]
      ELSE [err |-> "zxerr_ok", spendingKey |-> "secret", privateKeyData |-> "zero"]

\* computeMasterFromSeed(seed, keys.spendingKey): parser_ok and the key, or
\* an error and a spending key untouched or partly written
computeMasterFromSeed(fail) ==
    IF fail[1] = "master_clean" THEN [ok |-> FALSE, keys |-> ZeroKeys]
    ELSE IF fail[1] = "master_partial" THEN [ok |-> FALSE, keys |-> MasterKeys]
    ELSE [ok |-> TRUE, keys |-> MasterKeys]

\* computeKeys(saplingKeys)
computeKeys(keys, fail) ==
    IF fail[1] = "computeKeys"
      THEN [err |-> "zxerr_unknown", keys |-> [keys EXCEPT !.ask = "ask"]]
      ELSE [err |-> "zxerr_ok", keys |-> FullKeys]

\* a crypto_sign_masp that signs the spends before it checks them
crypto_sign_masp_signFirst(tx, output, spends, outputs, converts, store, fail) ==
    LET sg == crypto_sign_spends_sapling(tx, FullKeys, spends, store, fail)
        ck == crypto_check_masp(tx, FullKeys, spends, outputs, converts)
        ok == sg.err = "zxerr_ok" /\ ck.err = "zxerr_ok"
    IN  [err |-> IF ok THEN "zxerr_ok" ELSE "zxerr_invalid_crypto_settings",
         out |-> output, entered |-> TRUE,
         before |-> store, store |-> sg.store, check |-> ck, scratch |-> sg.scratch,
         trace |-> sg.trace \o ck.trace,
         sapling_seed |-> "zero", keys |-> "zero"]

\* crypto_sign_masp(txObj, output, outputLen); before and store are the
\* spend-signature store at entry and at return
crypto_sign_masp(tx, output, spends, outputs, converts, store, fail) ==
    LET none == [err |-> "zxerr_ok", spends |-> NotRun, outputs |-> NotRun,
                 converts |-> NotRun, trace |-> <<>>]
        base == [err |-> "zxerr_unknown", out |-> output, entered |-> TRUE,
                 before |-> store, store |-> store, check |-> none,
                 scratch |-> NoScratch,
                 trace |-> <<>>, sapling_seed |-> "zero", keys |-> "zero"]
        seed == crypto_computeSaplingSeed(fail)
        master == computeMasterFromSeed(fail)
        ks == computeKeys(master.keys, fail)
        ck == crypto_check_masp(tx, ks.keys, spends, outputs, converts)
        sg == crypto_sign_spends_sapling(tx, ks.keys, spends, store, fail)
    IN  IF Len(output) < ED25519_SIGNATURE_SIZE
          THEN [base EXCEPT !.entered = FALSE]
        ELSE IF seed.err # "zxerr_ok"
          THEN [base EXCEPT !.err = seed.err, !.sapling_seed = seed.spendingKey,
                            !.trace = << <<"crypto_computeSaplingSeed", 0>> >>]
        ELSE IF ~master.ok
          THEN [base EXCEPT !.keys = master.keys.held,
                            !.trace = << <<"crypto_computeSaplingSeed", 0>>,
                                         <<"computeMasterFromSeed", 0>> >>]
        ELSE LET t3 == << <<"crypto_computeSaplingSeed", 0>>,
                          <<"computeMasterFromSeed", 0>>, <<"computeKeys", 0>> >>
             IN  IF ks.err # "zxerr_ok"
                   THEN [base EXCEPT !.err = "zxerr_invalid_crypto_settings",
                                     !.trace = t3]
                 ELSE IF ck.err # "zxerr_ok"
                   THEN [base EXCEPT !.err = "zxerr_invalid_crypto_settings",
                                     !.check = ck, !.trace = t3 \o ck.trace]
                 ELSE IF sg.err # "zxerr_ok"
                   THEN [base EXCEPT !.err = "zxerr_invalid_crypto_settings",
                                     !.check = ck, !.store = sg.store,
                                     !.scratch = sg.scratch,
                                     !.trace = t3 \o ck.trace \o sg.trace]
                 ELSE [base EXCEPT !.err = "zxerr_ok",
                                   !.out = WriteAt(output, 0, ValueBytes("txhash", HASH_LEN)),
                                   !.check = ck, !.store = sg.store,
                                   !.scratch = sg.scratch,
                                   !.trace = t3 \o ck.trace \o sg.trace
                                             \o << <<"crypto_hash_messagebuffer", 0>> >>]

KeyKinds == {"PublicAddress", "ViewKeys", "ProofGenerationKey", "InvalidKind"}

\* copyKeys(saplingKeys, requestedKeys, output, outputLen)
copyKeys(requestedKeys, output) ==
    LET put(names) ==
            [err |-> "zxerr_ok",
             output |-> WriteAt(output, 0,
                [i \in 1..(Len(names) * KEY_LENGTH) |->
                    <<names[((i - 1) \div KEY_LENGTH) + 1], (i - 1) % KEY_LENGTH>>])]
        small == [err |-> "zxerr_buffer_too_small", output |-> output]
    IN  CASE requestedKeys = "PublicAddress" ->
                IF Len(output) < KEY_LENGTH THEN small ELSE put(<<"address">>)
          [] requestedKeys = "ViewKeys" ->
                IF Len(output) < 4 * KEY_LENGTH THEN small
                ELSE put(<<"ak", "nk", "ovk", "ivk">>)
          [] requestedKeys = "ProofGenerationKey" ->
                IF Len(output) < 2 * KEY_LENGTH THEN small ELSE put(<<"ak", "nsk">>)
          [] OTHER -> [err |-> "zxerr_invalid_crypto_settings", output |-> output]

\* crypto_generateSaplingKeys(output, outputLen, requestedKey)
crypto_generateSaplingKeys(output, requestedKey, fail) ==
    LET zeroed == MEMZERO(output)
        seed == crypto_computeSaplingSeed(fail)
        master == computeMasterFromSeed(fail)
        ks == computeKeys(master.keys, fail)
        cp == copyKeys(requestedKey, zeroed)
    IN  IF Len(output) < 3 * KEY_LENGTH
          THEN [err |-> "zxerr_buffer_too_small", out |-> output, entered |-> FALSE,
                sk |-> "zero", keys |-> "zero"]
        ELSE IF seed.err # "zxerr_ok"
          THEN [err |-> seed.err, out |-> zeroed, entered |-> TRUE,
                sk |-> seed.spendingKey, keys |-> "zero"]
        ELSE IF ~master.ok
          THEN [err |-> "zxerr_unknown", out |-> zeroed, entered |-> TRUE,
                sk |-> "zero", keys |-> master.keys.held]
        ELSE IF ks.err # "zxerr_ok"
          THEN [err |-> ks.err, out |-> zeroed, entered |-> TRUE,
                sk |-> "zero", keys |-> "zero"]
        ELSE [err |-> cp.err, out |-> cp.output, entered |-> TRUE,
              sk |-> "zero", keys |-> "zero"]

\* the RANDOM_LEN bytes drawn for field kind of item i
RandomBytes(kind, i) == [k \in 1..RANDOM_LEN |-> <<kind, i * RANDOM_LEN + k - 1>>]

RandomnessFails == {"none", "random_fr", "random_fr2", "append"}

MaspTypes == {"spend", "output", "convert", "other"}

\* a crypto_computeRandomness that records the first scalar in both fields
\* of a spend or output item
crypto_computeRandomness_firstTwice(type, out, n, fail) ==
    LET zeroed == MEMZERO(out)
        tmp_rnd == RandomBytes(type \o "_rcv", n)
        tmp_rnd2 == RandomBytes(IF type = "spend" THEN "spend_alpha" ELSE "output_rcm", n)
        first == WriteAt(zeroed, 0, tmp_rnd)
        second == WriteAt(first, RANDOM_LEN, tmp_rnd2)
        ret(e, o, len, items) == [err |-> e, out |-> o, replyLen |-> len, appended |-> items]
    IN  IF Len(out) < 2 * RANDOM_LEN \/ fail # "none"
             \/ type \notin {"spend", "output", "convert"}
          THEN ret("zxerr_unknown", out, 0, <<>>)
        ELSE IF type = "convert"
          THEN ret("zxerr_ok", first, RANDOM_LEN, << convert_append_rand_item(tmp_rnd) >>)
        ELSE IF type = "spend"
          THEN ret("zxerr_ok", second, 2 * RANDOM_LEN,
                   << spend_append_rand_item(tmp_rnd, tmp_rnd) >>)
        ELSE ret("zxerr_ok", second, 2 * RANDOM_LEN,
                 << output_append_rand_item(tmp_rnd, tmp_rnd) >>)

\* crypto_computeRandomness(type, out, outLen, replyLen) in the production
\* build, when the list of the type holds n items; appended is what the
\* call appended to that list (nothing, or one item); replyLen 0 stands for
\* a replyLen the call did not write
crypto_computeRandomness(type, out, n, fail) ==
    LET zeroed == MEMZERO(out)
        tmp_rnd == RandomBytes(type \o "_rcv", n)
        tmp_rnd2 == RandomBytes(IF type = "spend" THEN "spend_alpha" ELSE "output_rcm", n)
        first == WriteAt(zeroed, 0, tmp_rnd)
        second == WriteAt(first, RANDOM_LEN, tmp_rnd2)
        ret(e, o, len, items) == [err |-> e, out |-> o, replyLen |-> len, appended |-> items]
    IN  IF Len(out) < 2 * RANDOM_LEN THEN ret("zxerr_unknown", out, 0, <<>>)
        ELSE IF type \notin {"spend", "output", "convert"}
          THEN ret("zxerr_unknown", zeroed, 0, <<>>)
        ELSE IF fail = "random_fr" THEN ret("zxerr_unknown", zeroed, 0, <<>>)
        ELSE IF type = "convert"
          THEN IF fail = "append" THEN ret("zxerr_unknown", first, 0, <<>>)
               ELSE ret("zxerr_ok", first, RANDOM_LEN,
                        << convert_append_rand_item(tmp_rnd) >>)
        ELSE IF type = "spend" /\ fail = "random_fr2"
          THEN ret("zxerr_unknown", first, 0, <<>>)
        ELSE IF fail = "append" THEN ret("zxerr_unknown", second, 0, <<>>)
        ELSE IF type = "spend"
          THEN ret("zxerr_ok", second, 2 * RANDOM_LEN,
                   << spend_append_rand_item(tmp_rnd, tmp_rnd2) >>)
        ELSE ret("zxerr_ok", second, 2 * RANDOM_LEN,
                 << output_append_rand_item(tmp_rnd, tmp_rnd2) >>)

\* the SIGNATURE_SIZE bytes of a stored spend signature
SignatureBytes(sig) == [k \in 1..SIGNATURE_SIZE |-> <<"spendsig", k - 1, sig>>]

\* spend_signatures_more_extract() when read signatures of store have been
\* extracted
spend_signatures_more_extract(store, read) == read < Len(store)

\* an extraction that clears the buffer before it asks the store
crypto_extract_spend_signature_zeroFirst(buffer, store, read) ==
    IF ~spend_signatures_more_extract(store, read)
      THEN [err |-> "zxerr_unknown", replyLen |-> 0, out |-> MEMZERO(buffer),
            read |-> read]
      ELSE [err |-> "zxerr_ok", replyLen |-> SIGNATURE_SIZE,
            out |-> WriteAt(MEMZERO(buffer), 0, SignatureBytes(store[read + 1])),
            read |-> read + 1]

\* crypto_extract_spend_signature(buffer, bufferLen, cmdResponseLen) when
\* read signatures of store have been extracted; replyLen 0 stands for a
\* cmdResponseLen the call did not write
crypto_extract_spend_signature(buffer, store, read) ==
    IF ~spend_signatures_more_extract(store, read)
      THEN [err |-> "zxerr_unknown", replyLen |-> 0, out |-> buffer, read |-> read]
      ELSE [err |-> "zxerr_ok", replyLen |-> SIGNATURE_SIZE,
            out |-> WriteAt(MEMZERO(buffer), 0, SignatureBytes(store[read + 1])),
            read |-> read + 1]

(***************************************************************************)
(* The calls of the MASP side.                                             *)
(***************************************************************************)
MaspOutLens == {ED25519_SIGNATURE_SIZE - 1, ED25519_SIGNATURE_SIZE}

\* The calls of crypto_sign_masp the model tries: every tampering of the
\* honest transaction with a healthy engine, and every engine failure and
\* buffer on the honest transaction.
CryptoSignMaspCalls ==
    {[tampers |-> T, fail |-> <<"none", 0>>, outputLen |-> ED25519_SIGNATURE_SIZE,
      caller |-> "caller", indices |-> "identity", pairing |-> "by_index",
      trailing |-> "foreign"] : T \in Tampers}
    \cup
    {[tampers |-> {}, fail |-> f, outputLen |-> n, caller |-> content,
      indices |-> "identity", pairing |-> "by_index", trailing |-> "foreign"] :
        f \in MaspFails, n \in MaspOutLens, content \in CallerContents}
    \cup
    {[tampers |-> T, fail |-> <<"none", 0>>, outputLen |-> ED25519_SIGNATURE_SIZE,
      caller |-> "caller", indices |-> s, pairing |-> p, trailing |-> tr] :
        T \in {{}} \cup {{<<"output_cv", i>>} : i \in 0..(MaxOutputs - 1)},
        s \in IndexStreams, p \in Pairings, tr \in Trailings}

MaspTxOf(a) ==
    MaspTx(spendlist, outputlist, convertlist, a.tampers, a.indices, a.pairing,
           a.trailing)

CryptoSignMasp ==
    /\ op = "idle"
    /\ Len(sigstore) + Len(spendlist) <= MaxSigs
    /\ \E a \in CryptoSignMaspCalls :
        LET r == crypto_sign_masp(MaspTxOf(a), CallerBuffer(a.caller, a.outputLen),
                                  spendlist, outputlist, convertlist, sigstore, a.fail)
        IN  /\ op' = "crypto_sign_masp"
            /\ args' = a
            /\ res' = r
            /\ sigstore' = r.store
            /\ UNCHANGED <<spendlist, outputlist, convertlist, sigread>>

CryptoGenerateSaplingKeys ==
    /\ op = "idle"
    /\ \E n \in {3 * KEY_LENGTH - 1, 3 * KEY_LENGTH, 4 * KEY_LENGTH},
          kind \in KeyKinds, content \in CallerContents,
          fail \in {f \in MaspFails : f[1] \notin {"sign", "append"}} :
        /\ op' = "crypto_generateSaplingKeys"
        /\ args' = [outputLen |-> n, requestedKey |-> kind, caller |-> content,
                    fail |-> fail]
        /\ res' = crypto_generateSaplingKeys(CallerBuffer(content, n), kind, fail)
        /\ UNCHANGED storeVars

CryptoComputeRandomness ==
    /\ op = "idle"
    /\ \E type \in MaspTypes, n \in {2 * RANDOM_LEN - 1, 2 * RANDOM_LEN},
          fail \in RandomnessFails :
        LET held == CASE type = "spend" -> Len(spendlist)
                      [] type = "output" -> Len(outputlist)
                      [] type = "convert" -> Len(convertlist)
                      [] OTHER -> 0
            r == crypto_computeRandomness(type, CallerBuffer("caller", n), held, fail)
        IN  /\ type = "spend" => held < MaxSpends
            /\ type = "output" => held < MaxOutputs
            /\ type = "convert" => held < MaxConverts
            /\ op' = "crypto_computeRandomness"
            /\ args' = [type |-> type, outLen |-> n, fail |-> fail,
                        before |-> <<spendlist, outputlist, convertlist>>]
            /\ res' = r
            /\ spendlist' = IF type = "spend" THEN spendlist \o r.appended
                             ELSE spendlist
            /\ outputlist' = IF type = "output" THEN outputlist \o r.appended
                              ELSE outputlist
            /\ convertlist' = IF type = "convert" THEN convertlist \o r.appended
                               ELSE convertlist
            /\ UNCHANGED <<sigstore, sigread>>

ExtractBufferLens == {SIGNATURE_SIZE, SIGNATURE_SIZE + 1}

CryptoExtractSpendSignature ==
    /\ op = "idle"
    /\ \E n \in ExtractBufferLens, content \in CallerContents :
        LET r == crypto_extract_spend_signature(CallerBuffer(content, n),
                                                sigstore, sigread)
        IN  /\ op' = "crypto_extract_spend_signature"
            /\ args' = [bufferLen |-> n, caller |-> content,
                        store |-> sigstore, read |-> sigread]
            /\ res' = r
            /\ sigread' = r.read
            /\ UNCHANGED <<spendlist, outputlist, convertlist, sigstore>>

NextMasp ==
    \/ CryptoComputeRandomness
    \/ CryptoSignMasp
    \/ CryptoExtractSpendSignature
    \/ CryptoGenerateSaplingKeys
    \/ Respond

\* the MASP side: the randomness lists, the checks and the spend signatures
SpecMasp == Init /\ [][NextMasp]_vars

(***************************************************************************)
(* Properties of the MASP side, over the call that has just returned.      *)
(***************************************************************************)
MaspReturned == op = "crypto_sign_masp" /\ res.entered

Ran(name) == \E k \in 1..Len(res.trace) : res.trace[k][1] = name

\* the place of the step in the order the call ran its steps
Pos(name) == CHOOSE k \in 1..Len(res.trace) : res.trace[k][1] = name

ChecksPassed ==
    /\ res.check.spends.err = "parser_ok"
    /\ res.check.outputs.err = "parser_ok"
    /\ res.check.converts.err = "parser_ok"

\* C4: crypto_sign_masp runs checkSpends, checkOutputs, checkConverts in
\* this order, runs no check after a failed one, and signs or appends a
\* spend signature only after all three returned success in the same call.
C4_ChecksBeforeSigning ==
    MaspReturned =>
        /\ Ran("checkOutputs") =>
            /\ Ran("checkSpends") /\ Pos("checkSpends") < Pos("checkOutputs")
            /\ res.check.spends.err = "parser_ok"
        /\ Ran("checkConverts") =>
            /\ Ran("checkOutputs") /\ Pos("checkOutputs") < Pos("checkConverts")
            /\ res.check.outputs.err = "parser_ok"
        /\ \A k \in 1..Len(res.trace) :
            res.trace[k][1] \in {"sign", "append"} =>
                /\ ChecksPassed
                /\ Ran("checkConverts") /\ Pos("checkConverts") < k
        /\ sigstore # res.before => ChecksPassed

\* a call on a transaction with a spend, a tampered output and a tampered
\* convert: the spends passed, the outputs failed, the converts were not
\* looked at and nothing was signed
C4_StoppedAtOutputs ==
    /\ MaspReturned
    /\ args.tampers = {<<"output_cv", 0>>, <<"convert_cv", 0>>}
    /\ Len(spendlist) >= 1 /\ Len(outputlist) >= 1 /\ Len(convertlist) >= 1
    /\ res.check.spends.err = "parser_ok"
    /\ res.check.outputs.err = "parser_invalid_cv"
    /\ res.check.converts.err = "not_run"
    /\ sigstore = res.before

\* the on-wire value commitment of spend i differs from the one recomputed
\* from the builder's description of spend i and the rcv of item i
SpendCvDiffers(tx, i) ==
    tx.shielded_spends[i + 1].cv #
        computeValueCommitment(tx.builder_spends[i + 1].value,
                               RetrieveItem(spendlist, i).rcv,
                               tx.builder_spends[i + 1].identifier)

SpendRkDiffers(tx, i) ==
    tx.shielded_spends[i + 1].rk # computeRk(FullKeys, RetrieveItem(spendlist, i).alpha)

\* the spends both the builder and the bundle have
CommonSpends(tx) ==
    {i \in 0..(tx.n_spends - 1) : i < tx.n_shielded_spends /\ i < Len(spendlist)}

\* C5 as stated: whenever checkSpends runs on a transaction in which the
\* value commitment of some spend differs, it returns the invalid-cv error
\* and the call appends no spend signature.
C5_AnyTamperedCv ==
    (MaspReturned /\ Ran("checkSpends")) =>
        \A i \in CommonSpends(MaspTxOf(args)) :
            SpendCvDiffers(MaspTxOf(args), i) =>
                /\ res.check.spends.err = "parser_invalid_cv"
                /\ sigstore = res.before

\* C5 amended: whenever checkSpends runs on a transaction in which the
\* value commitment of some spend i differs, it returns an error and the
\* call appends no spend signature; the error is the invalid-cv error when
\* the two spend counts agree and every spend before i matches in cv and rk.
C5_FirstFailingCv ==
    (MaspReturned /\ Ran("checkSpends")) =>
        \A i \in CommonSpends(MaspTxOf(args)) :
            SpendCvDiffers(MaspTxOf(args), i) =>
                /\ res.check.spends.err # "parser_ok"
                /\ sigstore = res.before
                /\ ( /\ MaspTxOf(args).n_spends = MaspTxOf(args).n_shielded_spends
                     /\ \A j \in 0..(i - 1) :
                            /\ ~SpendCvDiffers(MaspTxOf(args), j)
                            /\ ~SpendRkDiffers(MaspTxOf(args), j) )
                   => res.check.spends.err = "parser_invalid_cv"

\* a call in which the first spend matched and the second one did not
C5_SecondSpendTampered ==
    /\ MaspReturned
    /\ args.tampers = {<<"spend_cv", 1>>}
    /\ Len(spendlist) = 2
    /\ res.check.spends.retrieved = <<0, 1>>
    /\ res.check.spends.err = "parser_invalid_cv"
    /\ res.err = "zxerr_invalid_crypto_settings"

\* the check read no description and retrieved no item
TouchedNothing(check) == check.described = <<>> /\ check.retrieved = <<>>

\* C6: each MASP check that runs on a transaction whose two counts differ
\* returns its count error (invalid number of spends for checkSpends,
\* invalid number of outputs for checkOutputs and for checkConverts)
\* without reading a description or retrieving an item.
C6_CountsFirst ==
    MaspReturned =>
        /\ (Ran("checkSpends")
              /\ MaspTxOf(args).n_spends # MaspTxOf(args).n_shielded_spends) =>
            /\ res.check.spends.err = "parser_invalid_number_of_spends"
            /\ TouchedNothing(res.check.spends)
        /\ (Ran("checkOutputs")
              /\ MaspTxOf(args).n_outputs # MaspTxOf(args).n_outputs_indices) =>
            /\ res.check.outputs.err = "parser_invalid_number_of_outputs"
            /\ TouchedNothing(res.check.outputs)
        /\ (Ran("checkConverts")
              /\ MaspTxOf(args).n_converts # MaspTxOf(args).n_shielded_converts) =>
            /\ res.check.converts.err = "parser_invalid_number_of_outputs"
            /\ TouchedNothing(res.check.converts)

\* a call whose builder declares one output more than the metadata lists,
\* the device holding an output item that the check could have retrieved
C6_OutputCountsDiffer ==
    /\ MaspReturned
    /\ Ran("checkOutputs")
    /\ Len(outputlist) >= 1
    /\ MaspTxOf(args).n_outputs = MaspTxOf(args).n_outputs_indices + 1
    /\ res.err = "zxerr_invalid_crypto_settings"

\* C9: at every return of crypto_sign_masp and crypto_generateSaplingKeys
\* the seed, the keys structure and the per-spend secrets rsk, r and rng of
\* sign_sapling_spend are all zero.
C9_ScratchZeroed ==
    /\ (op = "crypto_sign_masp" /\ res.entered) =>
        /\ res.sapling_seed = "zero"
        /\ res.keys = "zero"
        /\ res.scratch = NoScratch
    /\ (op = "crypto_generateSaplingKeys" /\ res.entered) =>
        /\ res.sk = "zero"
        /\ res.keys = "zero"

\* a call that signed a spend and returned success with the randomized
\* secret key still in memory
C9_RskLeft ==
    /\ MaspReturned
    /\ res.err = "zxerr_ok"
    /\ Ran("sign")
    /\ res.scratch.rsk = "secret"

\* the error kind of the design that an error value of the code stands for
ErrorKind(e) ==
    CASE e = "parser_invalid_number_of_spends" -> "InvalidNumberOfSpends"
      [] e = "parser_invalid_number_of_outputs" -> "InvalidNumberOfOutputs"
      [] e = "parser_invalid_cv" -> "InvalidCv"
      [] e = "parser_invalid_rk" -> "InvalidRk"
      [] e = "zxerr_invalid_crypto_settings" -> "InvalidSettings"
      [] e = "zxerr_unknown" -> "Unknown"
      [] OTHER -> e

\* the error of the first check that failed in the call
FirstFailedCheck ==
    IF res.check.spends.err # "parser_ok" THEN res.check.spends.err
    ELSE IF res.check.outputs.err # "parser_ok" THEN res.check.outputs.err
    ELSE res.check.converts.err

\* C11: when a check of crypto_sign_masp fails, the error the call returns
\* is of the kind of the first check that failed.
C11_ErrorVerbatim ==
    (MaspReturned /\ Ran("checkSpends") /\ ~ChecksPassed) =>
        ErrorKind(res.err) = ErrorKind(FirstFailedCheck)

\* a call whose spend check found a value commitment that differs and that
\* returned the error of malformed settings
C11_CvReportedAsSettings ==
    /\ MaspReturned
    /\ res.check.spends.err = "parser_invalid_cv"
    /\ res.err = "zxerr_invalid_crypto_settings"

\* C12: a crypto_sign_masp call that returns an error leaves the
\* spend-signature store as it was before the call.
C12_StoreUntouchedOnError ==
    (op = "crypto_sign_masp" /\ res.err # "zxerr_ok") => sigstore = res.before

\* a call that failed while signing the second spend and left the signature
\* of the first one in the store
C12_FirstSignatureLeft ==
    /\ MaspReturned
    /\ args.fail = <<"sign", 1>>
    /\ res.err # "zxerr_ok"
    /\ Len(sigstore) = Len(res.before) + 1

\* the steps crypto_sign_spends_sapling takes on n spends
SignTrace(n) ==
    IF n = 0 THEN <<>>
    ELSE << <<"signature_hash", 0>> >>
         \o [k \in 1..(2 * n) |->
                IF k % 2 = 1 THEN <<"sign", (k - 1) \div 2>>
                             ELSE <<"append", (k - 2) \div 2>>]

\* C13: a successful crypto_sign_masp on a transaction with n shielded
\* spends computes the signature hash once, before the loop, then signs and
\* appends spend 0, spend 1, ... spend n - 1 in this order, and the store
\* grows by exactly these n signatures, the i-th made with the alpha of
\* item i and all of them over that one signature hash.
C13_OnePerSpendInOrder ==
    (MaspReturned /\ res.err = "zxerr_ok") =>
        LET tx == MaspTxOf(args)
            n == tx.n_shielded_spends
        IN  /\ sigstore = res.before \o
                  [i \in 1..n |-> <<"spendsig", FullKeys.ask, spendlist[i].alpha,
                                    <<"sighash", tx.shielded_spends,
                                      tx.shielded_outputs, tx.shielded_converts>> >>]
            /\ SubSeq(res.trace, 7, Len(res.trace) - 1) = SignTrace(n)

\* a successful call on a transaction with two spends
C13_TwoSpendsSigned ==
    /\ MaspReturned
    /\ res.err = "zxerr_ok"
    /\ MaspTxOf(args).n_shielded_spends = 2
    /\ Len(sigstore) = Len(res.before) + 2
    /\ sigstore[Len(sigstore)][3] # sigstore[Len(sigstore) - 1][3]

ReturnedItem(type, out) ==
    CASE type = "spend" ->
            [rcv |-> Slice(out, 0, RANDOM_LEN), alpha |-> Slice(out, RANDOM_LEN, RANDOM_LEN)]
      [] type = "output" ->
            [rcv |-> Slice(out, 0, RANDOM_LEN), rcm |-> Slice(out, RANDOM_LEN, RANDOM_LEN)]
      [] OTHER -> [rcv |-> Slice(out, 0, RANDOM_LEN)]

\* the three randomness lists after a call that appended item to the list of
\* the type and left the other two alone
ListsAfter(before, type, item) ==
    CASE type = "spend" -> <<Append(before[1], item), before[2], before[3]>>
      [] type = "output" -> <<before[1], Append(before[2], item), before[3]>>
      [] OTHER -> <<before[1], before[2], Append(before[3], item)>>

\* C21: a successful crypto_computeRandomness appends exactly one item to the
\* list of the requested type and none to the other two, reports 64 bytes
\* for spend and output and 32 for convert, and the bytes it returns are
\* the bytes the appended item records; a failed call appends nothing.
C21_OneItemRecorded ==
    op = "crypto_computeRandomness" =>
        LET after == <<spendlist, outputlist, convertlist>>
        IN  IF res.err = "zxerr_ok"
              THEN /\ args.type \in {"spend", "output", "convert"}
                   /\ after = ListsAfter(args.before, args.type,
                                         ReturnedItem(args.type, res.out))
                   /\ res.replyLen = IF args.type = "convert" THEN RANDOM_LEN
                                     ELSE 2 * RANDOM_LEN
              ELSE after = args.before

\* an output item was recorded after a spend item, each from the 64 bytes
\* its call returned
C21_OutputRecorded ==
    /\ op = "crypto_computeRandomness"
    /\ res.err = "zxerr_ok"
    /\ args.type = "output"
    /\ Len(spendlist) > 0
    /\ Len(outputlist) = Len(args.before[2]) + 1
    /\ outputlist[Len(outputlist)].rcm = Slice(res.out, RANDOM_LEN, RANDOM_LEN)
    /\ outputlist[Len(outputlist)].rcm # outputlist[Len(outputlist)].rcv

\* the hashes crypto_addTxnHashes is to write for the transaction, each with
\* the index of the section it is of
ExtraHashes(tx) ==
    CASE tx.typeTx = "InitAccount" ->
            <<[hash |-> tx.vp_type_sechash, idx |-> tx.vp_type_secidx]>>
      [] tx.typeTx = "UpdateVP" ->
            <<[hash |-> tx.vp_type_sechash, idx |-> tx.vp_type_secidx]>>
      [] tx.typeTx = "InitProposal" /\ tx.proposal_type = "DefaultWithWasm" ->
            <<[hash |-> tx.content_sechash, idx |-> tx.content_secidx],
              [hash |-> tx.proposal_code_sechash, idx |-> tx.proposal_code_secidx]>>
      [] tx.typeTx = "InitProposal" /\ tx.proposal_type # "DefaultWithWasm" ->
            <<[hash |-> tx.content_sechash, idx |-> tx.content_secidx]>>
      [] OTHER -> <<>>

RECURSIVE IncludedPrior(_, _, _)
IncludedPrior(tx, tested, i) ==
    IF i > Len(tested) THEN <<>>
    ELSE (IF tested[i].appended
            THEN <<[hash |-> crypto_hashSigSection(tx.signatures[i], <<3>>, "none").digest,
                    idx |-> tx.signatures[i].idx]>>
            ELSE <<>>)
         \o IncludedPrior(tx, tested, i + 1)

\* the digest in slot k is the prefixed digest of a section signed with the
\* raw signature of this call
IsSignedRawDigest(h) ==
    /\ h[1] = "sigsec"
    /\ h[2] = <<3>>
    /\ h[7] = 1
    /\ h[8][1][3] = "rawsig"

\* C23: at the end of a successful crypto_sign the accumulator holds, in
\* this order and nothing else: the header hash (the raw header hash until
\* the wrapper step puts the fee header hash in its slot), the extra hashes
\* of the transaction type, the prefixed digest of the signed raw section,
\* the code hash, the data hash, the memo hash exactly when there is a memo,
\* and the prefixed digests of the included prior sections in transaction
\* order; the origin indices are the header sentinel, the extra section's
\* index, section count + 1, code.idx, data.idx, memo.idx and the prior
\* section's idx.
C23_AccumulatorOrder ==
    SignSucceeded =>
        LET tx == TxOf(args)
            x == Len(ExtraHashes(tx))
            rest == ExtraHashes(tx)
                    \o <<[hash |-> res.acc.hashes[x + 1], idx |-> U8(tx.sectionLen + 1)],
                          [hash |-> SectionHash("code"), idx |-> tx.code.idx],
                          [hash |-> SectionHash("data"), idx |-> tx.data.idx]>>
                    \o (IF tx.memoSection
                          THEN <<[hash |-> SectionHash("memo"), idx |-> tx.memo.idx]>>
                          ELSE <<>>)
                    \o IncludedPrior(tx, res.tested, 1)
        IN  /\ res.acc.hashesLen = 1 + Len(rest)
            /\ IsSignedRawDigest(res.acc.hashes[x + 1])
            /\ res.loopHashes[1] = crypto_hashRawHeader
            /\ Len(res.loopHashes) = 1 + Len(rest)
            /\ res.acc.hashes[0] = crypto_hashFeeHeader
            /\ res.acc.indices[0] = 0
            /\ \A k \in 1..Len(rest) :
                  /\ res.acc.hashes[k] = rest[k].hash
                  /\ res.loopHashes[k + 1] = rest[k].hash
                  /\ res.acc.indices[k] = rest[k].idx

\* a successful call inside the capacity on a transaction with an extra
\* section and a memo that included its second prior section and not its
\* first
C23_MemoAndSecondPrior ==
    /\ SignSucceeded
    /\ ~res.acc.overflow
    /\ TxOf(args).memoSection
    /\ Len(ExtraHashes(TxOf(args))) = 1
    /\ Len(res.tested) = 2
    /\ ~res.tested[1].appended
    /\ res.tested[2].appended
    /\ res.acc.hashesLen = 7
    /\ res.acc.indices[6] = TxOf(args).signatures[2].idx

\* the hash input of the unsigned wrapper section over the hash list held
\* when the loop over the prior sections ended: the fee header hash in
\* position 0, the other positions and the length as they were, signer
\* PubKeys with no key, no signature, no prefix
WrapperSectionInput(held) ==
    <<"sigsec", <<>>, Len(held),
      [k \in 1..Len(held) |-> IF k = 1 THEN crypto_hashFeeHeader ELSE held[k]],
      "PubKeys", <<"pubkeys", 0, <<>> >>, 0, <<>> >>

\* C24: the digest signed as the wrapper signature is the unprefixed hash of
\* a section with signer PubKeys, key count 0 and signature count 0, whose
\* hash list is the accumulator as the earlier steps left it with position 0
\* overwritten by the fee header hash: the raw header hash is no longer in
\* the list, the other positions and the length are unchanged.  In the
\* response of a successful call the final index list starts with 0 and the
\* raw index list still starts with the raw header sentinel 255.
C24_WrapperOverFeeHeader ==
    (SignReturned /\ res.wrapperMsg # ZeroHash) =>
        /\ res.loopHashes[1] = crypto_hashRawHeader
        /\ res.wrapperMsg = WrapperSectionInput(res.loopHashes)
        /\ \A k \in 1..res.wrapperMsg[3] : res.wrapperMsg[4][k] # crypto_hashRawHeader
        /\ res.err = "zxerr_ok" =>
              /\ HoldsAt(IndicesOffset + 1, Lit(255))
              /\ HoldsAt(IndicesOffset + 1 + res.raw_indices_len + 1, Lit(0))

\* a successful call whose wrapper signature is over six hashes, the first
\* of them the fee header hash, and whose response holds both sentinels
C24_WrapperSigned ==
    /\ SignSucceeded
    /\ res.oob = {}
    /\ res.wrapperMsg[3] = 6
    /\ res.wrapperMsg[4][1] = crypto_hashFeeHeader
    /\ NameOf(Slice(res.out, WrapperOffset + 1, ED25519_SIGNATURE_SIZE)) = "wrappersig"
    /\ res.out[IndicesOffset + 2] = Lit(255)
    /\ res.out[IndicesOffset + 2 + res.raw_indices_len + 1] = Lit(0)

\* the hash input of the signed variant of the section whose unsigned hash
\* input is raw: prefix 0x03, the same hash list of the same length, the
\* device's key counted, and one signature entry made of slot index 0, the
\* ed25519 tag and the raw signature
SignedVariant(raw) ==
    <<"sigsec", <<3>>, raw[3], raw[4], raw[5],
      <<"pubkeys", 1, << <<key_ed25519, "pk">> >> >>,
      1, << <<0, key_ed25519, "rawsig">> >> >>

\* C25: the hash crypto_sign appends behind the extras is the 0x03-prefixed
\* digest of the section whose unprefixed digest it signed as the raw
\* signature, with the same hash list of the same length, changed only by
\* key count 1 and by a single indexed signature (slot index 0, the ed25519
\* tag, the raw signature just made); the raw signature does not cover this
\* digest, and the wrapper signature does.
C25_SignedVariantAppended ==
    (SignReturned /\ res.rawMsg # ZeroHash /\ res.acc.hashesLen > res.rawMsg[3]) =>
        LET n == res.rawMsg[3]
            d == res.acc.hashes[n]
        IN  /\ res.rawMsg[2] = <<>>
            /\ res.rawMsg[7] = 0
            /\ d = SignedVariant(res.rawMsg)
            /\ res.acc.indices[n] = U8(TxOf(args).sectionLen + 1)
            /\ \A k \in 1..n : res.rawMsg[4][k] # d
            /\ res.wrapperMsg # ZeroHash => res.wrapperMsg[4][n + 1] = d

\* a successful call on a transaction with an extra section: the digest of
\* the signed raw section is in slot 2 and under the wrapper signature
C25_CommittedByWrapper ==
    /\ SignSucceeded
    /\ res.rawMsg[3] = 2
    /\ res.acc.hashes[2][2] = <<3>>
    /\ res.acc.hashes[2][8][1][3] = "rawsig"
    /\ res.wrapperMsg[4][3] = res.acc.hashes[2]
    /\ NameOf(Slice(res.out, RawOffset + 1, ED25519_SIGNATURE_SIZE)) = "rawsig"

\* the section is one crypto_hashSigSection is to refuse: its signer
\* discriminant is neither PubKeys nor Address, or one of the first
\* pubKeysLen keys of a PubKeys signer or one of the first signaturesLen
\* signatures carries a tag that is neither ed25519 nor secp256k1
Refused(sec) ==
    \/ sec.signerDiscriminant \notin {"PubKeys", "Address"}
    \/ /\ sec.signerDiscriminant = "PubKeys"
       /\ \E i \in 1..sec.pubKeysLen :
             sec.pubKeys[i].tag \notin {key_ed25519, key_secp256k1}
    \/ \E i \in 1..sec.signaturesLen :
             sec.indexedSignatures[i].tag \notin {key_ed25519, key_secp256k1}

\* the code's test let the prior section of test i through to the hasher
PassedTest(tx, i) ==
    OuterLoopEnd(tx.signatures[i], KnownAt(res.tested[i])) = tx.signatures[i].hashesLen

\* C26: crypto_hashSigSection returns an error and writes no digest for a
\* section whose signer discriminant is neither PubKeys nor Address, whose
\* PubKeys signer has a key among the first pubKeysLen with a tag other than
\* ed25519 or secp256k1, or which has such a tag among its first
\* signaturesLen signatures, and it hashes every other section when the
\* hash engine works; when a prior section that passed the subset test of
\* crypto_sign is refused, crypto_sign returns an error, appends nothing for
\* the section and tests no later section.
C26_BadSectionRefused ==
    /\ op = "crypto_hashSigSection" =>
          IF Refused(args.sec)
            THEN res.error # "zxerr_ok" /\ res.digest = ZeroHash
            ELSE args.fail = "none" => (res.error = "zxerr_ok" /\ res.digest[1] = "sigsec")
    /\ SignReturned =>
          \A i \in 1..Len(res.tested) :
              (PassedTest(TxOf(args), i) /\ Refused(TxOf(args).signatures[i])) =>
                  /\ res.err \notin {"zxerr_ok", "running"}
                  /\ ~res.tested[i].appended
                  /\ i = Len(res.tested)
                  /\ res.acc.hashesLen = res.tested[i].lenAt
                  /\ res.acc.hashes[res.acc.hashesLen] = ZeroHash

\* crypto_sign included the first prior section and stopped at the second,
\* whose signature tag is refused
C26_AbortedAtSecondSection ==
    /\ op = "crypto_sign"
    /\ args.kinds = <<"header", "badsig">>
    /\ res.err = "zxerr_unknown"
    /\ Len(res.tested) = 2
    /\ res.tested[1].appended
    /\ PassedTest(TxOf(args), 2)
    /\ ~res.tested[2].appended
    /\ res.acc.hashesLen = res.tested[2].lenAt

\* the commitment in bundle slot idx differs from the one recomputed from
\* builder output description idx and the rcv of output item idx
OutputCvDiffers(tx, idx) ==
    tx.shielded_outputs[idx + 1].cv #
        computeValueCommitment(tx.builder_outputs[idx + 1].value,
                               RetrieveItem(outputlist, idx).rcv,
                               tx.builder_outputs[idx + 1].identifier)

\* C27: in checkOutputs the k-th value idx of the indices stream selects the
\* builder output description that is read, the bundle slot whose
\* commitment is compared and the output item whose rcv is used, all three
\* by the same idx, the stream being consumed one entry per iteration in
\* order; the check returns the invalid-cv error exactly when the
\* commitment recomputed for some entry of the stream differs.
C27_SameIndexThroughout ==
    (MaspReturned /\ Ran("checkOutputs")
       /\ MaspTxOf(args).n_outputs = MaspTxOf(args).n_outputs_indices) =>
        LET tx == MaspTxOf(args)
            differing == {k \in 1..tx.n_outputs_indices :
                            OutputCvDiffers(tx, tx.outputs_indices[k])}
        IN  /\ res.check.outputs.retrieved
                  = SubSeq(tx.outputs_indices, 1, Len(res.check.outputs.retrieved))
            /\ res.check.outputs.described = res.check.outputs.retrieved
            /\ res.check.outputs.err
                  = IF differing = {} THEN "parser_ok" ELSE "parser_invalid_cv"

\* a call with two outputs and the index stream 1, 0 on a bundle whose every
\* slot matches the description and the item of its own index: the first
\* iteration read description 0, compared slot 1 with the rcv of item 1,
\* and the check failed
C27_DescriptionByCounter ==
    /\ MaspReturned
    /\ args.indices = "reversed"
    /\ args.pairing = "by_index"
    /\ args.tampers = {}
    /\ Len(outputlist) = 2
    /\ ~OutputCvDiffers(MaspTxOf(args), 0)
    /\ ~OutputCvDiffers(MaspTxOf(args), 1)
    /\ res.check.outputs.described = <<0>>
    /\ res.check.outputs.retrieved = <<1>>
    /\ res.check.outputs.err = "parser_invalid_cv"
    /\ res.err = "zxerr_invalid_crypto_settings"

\* C28: in checkConverts, for every convert i below the convert count (3
\* or more converts included), the commitment recomputed from builder
\* convert i and the rcv of convert item i is compared with the bundle
\* bytes at offset i * SHIELDED_CONVERTS_LEN, whatever number of converts
\* was checked before: the check ends as the comparison of each convert
\* with its own slot ends.
C28_EachConvertAtOwnOffset ==
    (MaspReturned /\ Ran("checkConverts")
       /\ MaspTxOf(args).n_converts = MaspTxOf(args).n_shielded_converts) =>
        res.check.converts = ConvertsAtOwnOffset(MaspTxOf(args), convertlist, 0, 0, <<>>)

\* a call on an untampered transaction with three converts: the first two
\* matched, the third was compared with the bytes behind the bundle, the
\* check failed and nothing was signed
C28_ThirdConvertPastBundle ==
    /\ MaspReturned
    /\ args.tampers = {}
    /\ args.trailing = "foreign"
    /\ Len(convertlist) = 3
    /\ Len(spendlist) >= 1
    /\ res.check.outputs.err = "parser_ok"
    /\ res.check.converts.described = <<0, 1, 2>>
    /\ res.check.converts.err = "parser_invalid_cv"
    /\ res.err = "zxerr_invalid_crypto_settings"
    /\ sigstore = res.before

\* the spends 0 .. n - 1 in order
FirstSpends(n) == [k \in 1..n |-> k - 1]

\* C29: in the production build checkSpends compares, for every spend i
\* whose value commitment matches, the verification key recomputed from the
\* spend key and the alpha of item i with the key held in bundle slot i
\* behind the commitment and the nullifier, and returns the invalid-rk
\* error when they differ; for each spend the commitment is compared before
\* the key, so a spend wrong in both gives the invalid-cv error, and spend i
\* is fully checked before spend i + 1 is read.
C29_RkAfterCvPerSpend ==
    (MaspReturned /\ Ran("checkSpends")
       /\ MaspTxOf(args).n_spends = MaspTxOf(args).n_shielded_spends) =>
        LET tx == MaspTxOf(args)
            wrong == {i \in 0..(tx.n_spends - 1) :
                        SpendCvDiffers(tx, i) \/ SpendRkDiffers(tx, i)}
            first == CHOOSE i \in wrong : \A j \in wrong : i <= j
        IN  IF wrong = {}
              THEN /\ res.check.spends.err = "parser_ok"
                   /\ res.check.spends.retrieved = FirstSpends(tx.n_spends)
              ELSE /\ res.check.spends.err
                        = IF SpendCvDiffers(tx, first) THEN "parser_invalid_cv"
                          ELSE "parser_invalid_rk"
                   /\ res.check.spends.described = FirstSpends(first + 1)
                   /\ res.check.spends.retrieved = FirstSpends(first + 1)
                   /\ sigstore = res.before

\* a call with two spends, the verification key of the first and the value
\* commitment of the second changed: the first spend gave the invalid-rk
\* error and the second was not read
C29_RkOfFirstSpendWrong ==
    /\ MaspReturned
    /\ args.tampers = {<<"spend_rk", 0>>, <<"spend_cv", 1>>}
    /\ Len(spendlist) = 2
    /\ ~SpendCvDiffers(MaspTxOf(args), 0)
    /\ SpendRkDiffers(MaspTxOf(args), 0)
    /\ res.check.spends.err = "parser_invalid_rk"
    /\ res.check.spends.described = <<0>>
    /\ sigstore = res.before
====
